---- MODULE Spec2Model ----
(***************************************************************************)
(* The lexer of src/src/token.rs as a state machine.                       *)
(*                                                                         *)
(* A script is a list of character sources; a character is a one-character *)
(* string and a text is a sequence of characters.  The tokenizer state is  *)
(* the MultiInputsStream (buf, index and the offset into the current       *)
(* source), the Position, the TokenizeState and the list of results the    *)
(* pulls have returned so far.  One pull of get_next_token is one action.  *)
(* A call of TokenIterator::next, which maps the raw token by the engine's  *)
(* custom keywords and disabled symbols, is another; the calls on a        *)
(* Position alone (advance, new_line, +) have specifications of their own. *)
(* The default feature set is modelled: floats on, no `decimal`, no        *)
(* `unicode-xid-ident`, functions, modules and objects on, INT = i64.      *)
(***************************************************************************)
EXTENDS Integers, Sequences, FiniteSets, TLC

VARIABLES
    streams,    \* MultiInputsStream.streams: the sources, each a text
    buf,        \* MultiInputsStream.buf: the pushed-back character or None
    index,      \* MultiInputsStream.index (1-based here)
    off,        \* characters already taken from streams[index]
    pos,        \* the tokenizer's Position
    state,      \* TokenizeState
    tokens,     \* the (token, position) pairs returned so far, in order
    panicked,   \* TRUE once a pull has panicked: the session is over
    ghost,      \* bookkeeping of the last pull, read by the properties only
    engine,     \* Engine.disabled_symbols and Engine.custom_keywords
    call        \* the last call on a Position or on the iterator, with what
                \* it was given, read by the properties only

vars == <<streams, buf, index, off, pos, state, tokens, panicked, ghost, engine, call>>

(***************************************************************************)
(* Bounds of the model.                                                    *)
(***************************************************************************)
MaxLen == 5         \* longest input over the comment alphabet
MaxTextLen == 4     \* longest input over the string/newline alphabet
MaxNumLen == 4      \* longest numeric literal body
MaxIdLen == 4       \* longest word over the identifier alphabet
MaxRadixLen == 3    \* longest run of digits and separators after a radix prefix
MaxExpLen == 3      \* longest text after an exponent marker
MaxMultiLen == 3    \* longest input that is cut into sources
PosWindow == 3      \* lines and columns this close to 0 or to the maximum
ExtraPulls == 2     \* pulls allowed beyond one per input character

(***************************************************************************)
(* Program constants.                                                      *)
(***************************************************************************)
U16Max == 65535
NUM_SEP == "_"

None == "None"      \* Option::None of a character
NUL == "NUL"        \* the '\0' that unwrap_or('\0') puts for a missing lookahead

(***************************************************************************)
(* Characters.                                                             *)
(***************************************************************************)
Lower == {"a","b","c","d","e","f","g","h","i","j","k","l","m",
          "n","o","p","q","r","s","t","u","v","w","x","y","z"}
Upper == {"A","B","C","D","E","F","G","H","I","J","K","L","M",
          "N","O","P","Q","R","S","T","U","V","W","X","Y","Z"}
Digit == {"0","1","2","3","4","5","6","7","8","9"}

\* The printable ASCII characters, code points 32..126 in order (the grave
\* accent, 96, by its name).
Ascii ==
    <<" ","!","\"","#","$","%","&","'","(",")","*","+",",","-",".","/",
      "0","1","2","3","4","5","6","7","8","9",":",";","<","=",">","?",
      "@","A","B","C","D","E","F","G","H","I","J","K","L","M","N","O",
      "P","Q","R","S","T","U","V","W","X","Y","Z","[","\\","]","^","_",
      "U+96","a","b","c","d","e","f","g","h","i","j","k","l","m","n","o",
      "p","q","r","s","t","u","v","w","x","y","z","{","|","}","~">>

\* char::from_u32 on a value that is a code point: the character itself when
\* it is ASCII, a name for it otherwise.
CharOf(n) ==
    IF n \in 32..126 THEN Ascii[n - 31]
    ELSE IF n = 9 THEN "\t"
    ELSE IF n = 10 THEN "\n"
    ELSE IF n = 13 THEN "\r"
    ELSE "U+" \o ToString(n)

\* A conversion that takes every value for a code point.
AnyValueIsCodePoint(n) == TRUE

\* char::from_u32 succeeds on every value up to 0x10FFFF but the surrogates.
IsCodePoint(n) == n <= 1114111 /\ ~(n \in 55296..57343)

\* char::len_utf8
Utf8Len(n) == IF n < 128 THEN 1 ELSE IF n < 2048 THEN 2 ELSE IF n < 65536 THEN 3 ELSE 4

HexDigits == <<"0","1","2","3","4","5","6","7","8","9","a","b","c","d","e","f">>
HexUpper == <<"0","1","2","3","4","5","6","7","8","9","A","B","C","D","E","F">>

is_hex_digit(c) == c \in Digit \/ c \in {"a","b","c","d","e","f"} \/ c \in {"A","B","C","D","E","F"}

is_numeric_digit(c) == c \in Digit

\* char::to_digit(16): the value of a hex digit (the caller checks is_hex_digit).
ToDigit16(c) ==
    IF \E i \in 1..16 : HexDigits[i] = c
    THEN (CHOOSE i \in 1..16 : HexDigits[i] = c) - 1
    ELSE (CHOOSE i \in 1..16 : HexUpper[i] = c) - 1

\* char::is_whitespace for the characters the inputs hold; '\n' is whitespace
\* too but the tokenizer's match takes it first.
is_whitespace(c) == c \in {" ", "\t", "\r", "\n", "\f"}

\* A test that takes no character for the start of an identifier.
NoIdFirst(x) == FALSE

is_id_first_alphabetic(x) == x \in Lower \/ x \in Upper

is_id_continue(x) == x \in Lower \/ x \in Upper \/ x \in Digit \/ x = "_"

is_ascii_alphanumeric(x) == x \in Lower \/ x \in Upper \/ x \in Digit

\* A text as a TLA+ string, to compare it with string literals.
RECURSIVE Str(_)
Str(s) == IF s = <<>> THEN "" ELSE Head(s) \o Str(Tail(s))

StartsWith(s, p) == Len(s) >= Len(p) /\ SubSeq(s, 1, Len(p)) = p

(***************************************************************************)
(* Position.                                                               *)
(***************************************************************************)
Position(l, p) == [line |-> l, pos |-> p]
NONE == Position(0, 0)
START == Position(1, 0)

is_none(p) == p = NONE

is_beginning_of_line(p) == p.pos = 0 /\ ~is_none(p)

\* advance, rewind, new_line: the body after the asserts; the asserts are
\* AdvancePanics, RewindPanics, NewLinePanics.
\* An advance that adds one in 16 bits without looking at the maximum.
AdvanceWraps(p) == [p EXCEPT !.pos = (p.pos + 1) % (U16Max + 1)]

advance(p) == IF p.pos < U16Max THEN [p EXCEPT !.pos = p.pos + 1] ELSE p
AdvancePanics(p) == is_none(p)

\* A rewind that goes back to the beginning of the line.
RewindToLineStart(p) == [p EXCEPT !.pos = 0]

rewind(p) == [p EXCEPT !.pos = p.pos - 1]
RewindPanics(p) == is_none(p) \/ ~(p.pos > 0)

new_line(p) == IF p.line < U16Max THEN Position(p.line + 1, 0) ELSE p
NewLinePanics(p) == is_none(p)

\* x + y - 1 in u16, as `self.line + rhs.line - 1` computes it: the sum, then
\* the difference.  A step that leaves 0..65535 panics in a build with
\* overflow checks and wraps around in a build without them.
AddOverflows(x, y) == x + y > U16Max \/ x + y - 1 < 0
AddWrapped(x, y) == (x + y - 1) % (U16Max + 1)

\* impl Add for Position: the outcomes of self + rhs over the builds.
add(self, rhs) ==
    IF is_none(rhs) THEN { [panic |-> FALSE, p |-> self] }
    ELSE LET bol == is_beginning_of_line(rhs)
             overflows == AddOverflows(self.line, rhs.line)
                              \/ (~bol /\ AddOverflows(self.pos, rhs.pos))
             wrapped == Position(AddWrapped(self.line, rhs.line),
                                 IF bol THEN self.pos ELSE AddWrapped(self.pos, rhs.pos))
         IN IF overflows
            THEN { [panic |-> TRUE, p |-> self], [panic |-> FALSE, p |-> wrapped] }
            ELSE { [panic |-> FALSE, p |-> wrapped] }

(***************************************************************************)
(* MultiInputsStream.  A cursor c carries the stream fields (buf, index,   *)
(* off), the Position the scanning functions receive by reference,         *)
(* whether an assert or unwrap has failed on the way, and whether an unget *)
(* has overwritten a character that was still pending in buf.  ss is the   *)
(* list of sources.                                                        *)
(***************************************************************************)
Cursor(b, i, o, p) ==
    [buf |-> b, index |-> i, off |-> o, pos |-> p, panic |-> FALSE, lost |-> FALSE]

\* A `let`: the value v under the name that F gives it.
With(v, F(_)) == F(v)

\* A loop that takes the end of the current source for the end of the input.
SeekOneSource(ss, i, o) ==
    IF i <= Len(ss) /\ o < Len(ss[i]) THEN [index |-> i, off |-> o]
    ELSE [index |-> Len(ss) + 1, off |-> 0]

\* The loop of get_next and peek_next: jump over the exhausted sources.
RECURSIVE Seek(_, _, _)
Seek(ss, i, o) ==
    IF i > Len(ss) THEN [index |-> i, off |-> 0]
    ELSE IF o < Len(ss[i]) THEN [index |-> i, off |-> o]
    ELSE Seek(ss, i + 1, 0)

unget(c, ch) == [c EXCEPT !.buf = ch, !.lost = c.lost \/ c.buf # None]

get_next(ss, c) ==
    IF c.buf # None
    THEN [ch |-> c.buf, c |-> [c EXCEPT !.buf = None]]
    ELSE With(Seek(ss, c.index, c.off), LAMBDA k :
         IF k.index > Len(ss)
         THEN [ch |-> None, c |-> [c EXCEPT !.index = k.index, !.off = k.off]]
         ELSE [ch |-> ss[k.index][k.off + 1],
               c |-> [c EXCEPT !.index = k.index, !.off = k.off + 1]])

\* A peek that looks at the sources and not at buf.
PeekPastBuf(ss, c) ==
    With(Seek(ss, c.index, c.off), LAMBDA k :
    IF k.index > Len(ss)
    THEN [ch |-> None, c |-> [c EXCEPT !.index = k.index, !.off = k.off]]
    ELSE [ch |-> ss[k.index][k.off + 1],
          c |-> [c EXCEPT !.index = k.index, !.off = k.off]])

peek_next(ss, c) ==
    IF c.buf # None
    THEN [ch |-> c.buf, c |-> c]
    ELSE With(Seek(ss, c.index, c.off), LAMBDA k :
         IF k.index > Len(ss)
         THEN [ch |-> None, c |-> [c EXCEPT !.index = k.index, !.off = k.off]]
         ELSE [ch |-> ss[k.index][k.off + 1],
               c |-> [c EXCEPT !.index = k.index, !.off = k.off]])

\* pos.advance(), pos.rewind(), pos.new_line() on the cursor's Position.
PosAdvance(c) ==
    IF AdvancePanics(c.pos) THEN [c EXCEPT !.panic = TRUE]
    ELSE [c EXCEPT !.pos = advance(c.pos)]

PosRewind(c) ==
    IF RewindPanics(c.pos) THEN [c EXCEPT !.panic = TRUE]
    ELSE [c EXCEPT !.pos = rewind(c.pos)]

PosNewLine(c) ==
    IF NewLinePanics(c.pos) THEN [c EXCEPT !.panic = TRUE]
    ELSE [c EXCEPT !.pos = new_line(c.pos)]

\* eat_next: the cursor after it (its callers drop the character).
eat_next(ss, c) == get_next(ss, PosAdvance(c)).c

(***************************************************************************)
(* Tokens.  kind is the variant's name; err, text and val are the payload: *)
(* the LexError variant, the carried text, the numeric value.  A number is *)
(* m * 10^e: an integer has e = 0, a float is normalised (m not a multiple *)
(* of 10, or m = 0 and e = 0).                                             *)
(***************************************************************************)
NoVal == [m |-> 0, e |-> 0]

Tok(kind) == [kind |-> kind, err |-> "", text |-> <<>>, val |-> NoVal]
TokText(kind, text) == [kind |-> kind, err |-> "", text |-> text, val |-> NoVal]
TokNum(kind, v) == [kind |-> kind, err |-> "", text |-> <<>>, val |-> v]
TokErr(err, text, n) ==
    [kind |-> "LexError", err |-> err, text |-> text, val |-> [m |-> n, e |-> 0]]

\* What a pull returns when it returns None.
NoToken == Tok("None")

\* KEYWORD_PRINT .. KEYWORD_IS_DEF_FN of crate::engine.
KeywordFunctions ==
    {"print", "debug", "type_of", "eval", "Fn", "call", "curry", "this",
     "is_def_var", "is_def_fn"}

ReservedWords ==
    {"===", "!==", "->", "<-", ":=", "~", "::<", "(*", "*)", "#", "public",
     "new", "use", "module", "package", "var", "static", "begin", "end",
     "shared", "with", "each", "then", "goto", "unless", "exit", "match",
     "case", "default", "void", "nil", "spawn", "thread", "go", "sync",
     "async", "await", "yield"}

\* The fixed-syntax variants with their syntax, in the order of Token::syntax.
SyntaxTable ==
    << <<"LeftBrace", <<"{">> >>, <<"RightBrace", <<"}">> >>,
       <<"LeftParen", <<"(">> >>, <<"RightParen", <<")">> >>,
       <<"LeftBracket", <<"[">> >>, <<"RightBracket", <<"]">> >>,
       <<"Plus", <<"+">> >>, <<"UnaryPlus", <<"+">> >>,
       <<"Minus", <<"-">> >>, <<"UnaryMinus", <<"-">> >>,
       <<"Multiply", <<"*">> >>, <<"Divide", <<"/">> >>,
       <<"SemiColon", <<";">> >>, <<"Colon", <<":">> >>,
       <<"DoubleColon", <<":", ":">> >>, <<"DoubleArrow", <<"=", ">">> >>,
       <<"Underscore", <<"_">> >>, <<"Comma", <<",">> >>,
       <<"Period", <<".">> >>, <<"MapStart", <<"#", "{">> >>,
       <<"Equals", <<"=">> >>,
       <<"True", <<"t","r","u","e">> >>, <<"False", <<"f","a","l","s","e">> >>,
       <<"Let", <<"l","e","t">> >>, <<"Const", <<"c","o","n","s","t">> >>,
       <<"If", <<"i","f">> >>, <<"Else", <<"e","l","s","e">> >>,
       <<"Switch", <<"s","w","i","t","c","h">> >>, <<"Do", <<"d","o">> >>,
       <<"While", <<"w","h","i","l","e">> >>, <<"Until", <<"u","n","t","i","l">> >>,
       <<"Loop", <<"l","o","o","p">> >>, <<"For", <<"f","o","r">> >>,
       <<"In", <<"i","n">> >>,
       <<"LessThan", <<"<">> >>, <<"GreaterThan", <<">">> >>,
       <<"Bang", <<"!">> >>,
       <<"LessThanEqualsTo", <<"<", "=">> >>, <<"GreaterThanEqualsTo", <<">", "=">> >>,
       <<"EqualsTo", <<"=", "=">> >>, <<"NotEqualsTo", <<"!", "=">> >>,
       <<"Pipe", <<"|">> >>, <<"Or", <<"|", "|">> >>,
       <<"Ampersand", <<"&">> >>, <<"And", <<"&", "&">> >>,
       <<"Continue", <<"c","o","n","t","i","n","u","e">> >>,
       <<"Break", <<"b","r","e","a","k">> >>, <<"Return", <<"r","e","t","u","r","n">> >>,
       <<"Throw", <<"t","h","r","o","w">> >>, <<"Try", <<"t","r","y">> >>,
       <<"Catch", <<"c","a","t","c","h">> >>,
       <<"PlusAssign", <<"+", "=">> >>, <<"MinusAssign", <<"-", "=">> >>,
       <<"MultiplyAssign", <<"*", "=">> >>, <<"DivideAssign", <<"/", "=">> >>,
       <<"LeftShiftAssign", <<"<", "<", "=">> >>, <<"RightShiftAssign", <<">", ">", "=">> >>,
       <<"AndAssign", <<"&", "=">> >>, <<"OrAssign", <<"|", "=">> >>,
       <<"XOrAssign", <<"^", "=">> >>,
       <<"LeftShift", <<"<", "<">> >>, <<"RightShift", <<">", ">">> >>,
       <<"XOr", <<"^">> >>, <<"Modulo", <<"%">> >>, <<"ModuloAssign", <<"%", "=">> >>,
       <<"PowerOf", <<"*", "*">> >>, <<"PowerOfAssign", <<"*", "*", "=">> >>,
       <<"Fn", <<"f","n">> >>, <<"Private", <<"p","r","i","v","a","t","e">> >>,
       <<"Import", <<"i","m","p","o","r","t">> >>, <<"Export", <<"e","x","p","o","r","t">> >>,
       <<"As", <<"a","s">> >>,
       <<"EOF", <<"{", "E", "O", "F", "}">> >> >>

\* i.to_string() of a number that is not negative: its decimal digits.
RECURSIVE DigitsOf(_)
DigitsOf(n) ==
    IF n < 10 THEN <<HexDigits[n + 1]>>
    ELSE Append(DigitsOf(n \div 10), HexDigits[(n % 10) + 1])

\* INT's to_string.
IntText(n) == IF n < 0 THEN <<"-">> \o DigitsOf(0 - n) ELSE DigitsOf(n)

Zeros(k) == [i \in 1..k |-> "0"]

\* f.to_string() of the value m * 10^e with m normalised: the digits with
\* the point where it belongs and no exponent.
FloatText(v) ==
    LET sign == IF v.m < 0 THEN <<"-">> ELSE <<>>
        d == DigitsOf(IF v.m < 0 THEN 0 - v.m ELSE v.m)
        k == 0 - v.e
    IN IF v.e >= 0 THEN sign \o d \o Zeros(v.e)
       ELSE IF Len(d) > k
       THEN sign \o SubSeq(d, 1, Len(d) - k) \o <<".">> \o SubSeq(d, Len(d) - k + 1, Len(d))
       ELSE sign \o <<"0", ".">> \o Zeros(k - Len(d)) \o d

\* err.to_string(): the text of an error, which starts with words of its
\* own, kept as the name of the error, and goes on with what it carries.
ErrorText(t) == <<t.err>> \o t.text

\* Token::syntax of the variants whose syntax is their carried text or a
\* fixed text (Null is matched first, the fixed ones by the inner match).
syntax(t) ==
    IF t.kind \in {"Identifier", "Reserved", "Custom", "Comment"} THEN t.text
    ELSE IF t.kind = "IntegerConstant" THEN IntText(t.val.m)
    ELSE IF t.kind = "FloatConstant" THEN FloatText(t.val)
    ELSE IF t.kind = "LexError" THEN ErrorText(t)
    ELSE IF t.kind = "StringConstant" THEN <<"s","t","r","i","n","g">>
    ELSE IF t.kind = "CharConstant" THEN t.text
    ELSE IF t.kind = "Null" THEN <<"n","u","l","l">>
    ELSE LET i == CHOOSE i \in 1..Len(SyntaxTable) : SyntaxTable[i][1] = t.kind
         IN SyntaxTable[i][2]

\* Token::lookup_from_syntax; NoToken is its None.
lookup_from_syntax(s) ==
    LET x == Str(s) IN
    CASE x = "{" -> Tok("LeftBrace")
      [] x = "}" -> Tok("RightBrace")
      [] x = "(" -> Tok("LeftParen")
      [] x = ")" -> Tok("RightParen")
      [] x = "[" -> Tok("LeftBracket")
      [] x = "]" -> Tok("RightBracket")
      [] x = "+" -> Tok("Plus")
      [] x = "-" -> Tok("Minus")
      [] x = "*" -> Tok("Multiply")
      [] x = "/" -> Tok("Divide")
      [] x = ";" -> Tok("SemiColon")
      [] x = ":" -> Tok("Colon")
      [] x = "::" -> Tok("DoubleColon")
      [] x = "=>" -> Tok("DoubleArrow")
      [] x = "_" -> Tok("Underscore")
      [] x = "," -> Tok("Comma")
      [] x = "." -> Tok("Period")
      [] x = "#{" -> Tok("MapStart")
      [] x = "=" -> Tok("Equals")
      [] x = "null" -> Tok("Null")
      [] x = "true" -> Tok("True")
      [] x = "false" -> Tok("False")
      [] x = "let" -> Tok("Let")
      [] x = "const" -> Tok("Const")
      [] x = "if" -> Tok("If")
      [] x = "else" -> Tok("Else")
      [] x = "switch" -> Tok("Switch")
      [] x = "do" -> Tok("Do")
      [] x = "while" -> Tok("While")
      [] x = "until" -> Tok("Until")
      [] x = "loop" -> Tok("Loop")
      [] x = "for" -> Tok("For")
      [] x = "in" -> Tok("In")
      [] x = "<" -> Tok("LessThan")
      [] x = ">" -> Tok("GreaterThan")
      [] x = "!" -> Tok("Bang")
      [] x = "<=" -> Tok("LessThanEqualsTo")
      [] x = ">=" -> Tok("GreaterThanEqualsTo")
      [] x = "==" -> Tok("EqualsTo")
      [] x = "!=" -> Tok("NotEqualsTo")
      [] x = "|" -> Tok("Pipe")
      [] x = "||" -> Tok("Or")
      [] x = "&" -> Tok("Ampersand")
      [] x = "&&" -> Tok("And")
      [] x = "continue" -> Tok("Continue")
      [] x = "break" -> Tok("Break")
      [] x = "return" -> Tok("Return")
      [] x = "throw" -> Tok("Throw")
      [] x = "try" -> Tok("Try")
      [] x = "catch" -> Tok("Catch")
      [] x = "+=" -> Tok("PlusAssign")
      [] x = "-=" -> Tok("MinusAssign")
      [] x = "*=" -> Tok("MultiplyAssign")
      [] x = "/=" -> Tok("DivideAssign")
      [] x = "<<=" -> Tok("LeftShiftAssign")
      [] x = ">>=" -> Tok("RightShiftAssign")
      [] x = "&=" -> Tok("AndAssign")
      [] x = "|=" -> Tok("OrAssign")
      [] x = "^=" -> Tok("XOrAssign")
      [] x = "<<" -> Tok("LeftShift")
      [] x = ">>" -> Tok("RightShift")
      [] x = "^" -> Tok("XOr")
      [] x = "%" -> Tok("Modulo")
      [] x = "%=" -> Tok("ModuloAssign")
      [] x = "**" -> Tok("PowerOf")
      [] x = "**=" -> Tok("PowerOfAssign")
      [] x = "fn" -> Tok("Fn")
      [] x = "private" -> Tok("Private")
      [] x = "import" -> Tok("Import")
      [] x = "export" -> Tok("Export")
      [] x = "as" -> Tok("As")
      [] x \in ReservedWords -> TokText("Reserved", s)
      [] x \in KeywordFunctions -> TokText("Reserved", s)
      [] OTHER -> NoToken

\* The variants Token::is_next_unary answers true for.
NextUnaryKinds ==
      {"LexError", "LeftBrace", "LeftParen", "LeftBracket",
       "Plus", "UnaryPlus", "Minus", "UnaryMinus", "Multiply", "Divide",
       "Comma", "Period", "Equals", "LessThan", "GreaterThan", "Bang",
       "LessThanEqualsTo", "GreaterThanEqualsTo", "EqualsTo", "NotEqualsTo",
       "Pipe", "Or", "Ampersand", "And", "If", "Do", "While", "Until",
       "PlusAssign", "MinusAssign", "MultiplyAssign", "DivideAssign",
       "LeftShiftAssign", "RightShiftAssign", "PowerOf", "PowerOfAssign",
       "AndAssign", "OrAssign", "XOrAssign", "LeftShift", "RightShift",
       "XOr", "Modulo", "ModuloAssign", "Return", "Throw", "In"}

\* Token::is_next_unary
is_next_unary(t) == t.kind \in NextUnaryKinds

\* is_valid_identifier: the loop over the characters, then the result.
RECURSIVE IsValidIdLoop(_, _)
IsValidIdLoop(name, first_alphabetic) ==
    IF name = <<>> THEN first_alphabetic
    ELSE LET ch == Head(name) IN
         IF ch = "_" THEN IsValidIdLoop(Tail(name), first_alphabetic)
         ELSE IF is_id_first_alphabetic(ch) THEN IsValidIdLoop(Tail(name), TRUE)
         ELSE IF ~first_alphabetic THEN FALSE
         ELSE IF is_ascii_alphanumeric(ch) THEN IsValidIdLoop(Tail(name), first_alphabetic)
         ELSE FALSE

\* An is_valid_identifier that wants a letter in front.
ValidOnlyLetterFirst(name) ==
    name # <<>> /\ is_id_first_alphabetic(name[1]) /\ IsValidIdLoop(name, FALSE)

is_valid_identifier(name) == IsValidIdLoop(name, FALSE)

\* is_doc_comment
is_doc_comment(comment) ==
    \/ StartsWith(comment, <<"/", "/", "/">>) /\ ~StartsWith(comment, <<"/", "/", "/", "/">>)
    \/ StartsWith(comment, <<"/", "*", "*">>) /\ ~StartsWith(comment, <<"/", "*", "*", "*">>)


(***************************************************************************)
(* parse_string_literal.                                                   *)
(***************************************************************************)
StrErr(err, text, n, epos, c) ==
    [ok |-> FALSE, text |-> <<>>, err |-> TokErr(err, text, n), epos |-> epos, c |-> c]
StrOk(text, c) ==
    [ok |-> TRUE, text |-> text, err |-> NoToken, epos |-> NONE, c |-> c]

\* out_val * 16 + digit.  No u32 overflow in at most 8 digits; a value past
\* the last code point is kept as 0x110000, which from_u32 rejects as well.
AddHex(out_val, d) ==
    IF out_val * 16 + d > 1114111 THEN 1114112 ELSE out_val * 16 + d

\* The `for _ in 0..len` loop of a \x, \u or \U escape, n digits to go.
RECURSIVE HexLoop(_, _, _, _, _)
HexLoop(ss, c, seq, out_val, n) ==
    IF n = 0 THEN [ok |-> TRUE, c |-> c, seq |-> seq, val |-> out_val]
    ELSE With(get_next(ss, c), LAMBDA g :
         IF g.ch = None
         THEN [ok |-> FALSE, c |-> g.c, seq |-> seq, val |-> out_val]
         ELSE LET seq1 == Append(seq, g.ch)
                  c1 == PosAdvance(g.c)
              IN IF ~is_hex_digit(g.ch)
                 THEN [ok |-> FALSE, c |-> c1, seq |-> seq1, val |-> out_val]
                 ELSE HexLoop(ss, c1, seq1, AddHex(out_val, ToDigit16(g.ch)), n - 1))

\* Escape lengths that read two digits after \u as well.
EscapeLenShortU(ch) == IF ch \in {"x", "u"} THEN 2 ELSE 8

\* The number of hex digits of a \x, \u, \U escape.
EscapeLen(ch) == IF ch = "x" THEN 2 ELSE IF ch = "u" THEN 4 ELSE 8

\* The loop of parse_string_literal and the length check after it.  max is
\* state.max_string_size (0: none), nbytes the byte length of result.
RECURSIVE StrLoop(_, _, _, _, _, _, _, _)
StrLoop(ss, c, max, enclosing_char, start, result, nbytes, escape) ==
    With(get_next(ss, c), LAMBDA g :
    IF g.ch = None THEN StrErr("UnterminatedString", <<>>, 0, start, g.c)
    ELSE
    With(PosAdvance(g.c), LAMBDA c1 :
    LET ch == g.ch
        esc == escape # <<>>
        Push(x, n) == StrLoop(ss, c1, max, enclosing_char, start,
                              Append(result, x), nbytes + n, <<>>)
    IN
    IF max # 0 /\ Len(result) > max
    THEN StrErr("StringTooLong", <<>>, max, c1.pos, c1)
    ELSE IF ch = "\\" /\ ~esc
    THEN StrLoop(ss, c1, max, enclosing_char, start, result, nbytes, <<"\\">>)
    ELSE IF ch = "\\" THEN Push("\\", 1)
    ELSE IF ch = "t" /\ esc THEN Push("\t", 1)
    ELSE IF ch = "n" /\ esc THEN Push("\n", 1)
    ELSE IF ch = "r" /\ esc THEN Push("\r", 1)
    ELSE IF ch \in {"x", "u", "U"} /\ esc
    THEN With(HexLoop(ss, c1, Append(escape, ch), 0, EscapeLen(ch)), LAMBDA h :
         IF ~h.ok \/ ~IsCodePoint(h.val)
         THEN StrErr("MalformedEscapeSequence", h.seq, 0, h.c.pos, h.c)
         ELSE StrLoop(ss, h.c, max, enclosing_char, start,
                      Append(result, CharOf(h.val)), nbytes + Utf8Len(h.val), <<>>))
    ELSE IF ch = enclosing_char /\ esc THEN Push(ch, 1)
    ELSE IF ch = enclosing_char
    THEN IF max # 0 /\ nbytes > max
         THEN StrErr("StringTooLong", <<>>, max, c1.pos, c1)
         ELSE StrOk(result, c1)
    ELSE IF esc
    THEN StrErr("MalformedEscapeSequence", Append(escape, ch), 0, c1.pos, c1)
    ELSE IF ch = "\n"
    THEN StrErr("UnterminatedString", <<>>, 0, start, PosRewind(c1))
    ELSE Push(ch, 1)))

parse_string_literal(ss, c, max, enclosing_char) ==
    StrLoop(ss, c, max, enclosing_char, c.pos, <<>>, 0, <<>>)

(***************************************************************************)
(* scan_block_comment.  An Option<String> is [some, text].                 *)
(***************************************************************************)
NoComment == [some |-> FALSE, text |-> <<>>]
SomeComment(text) == [some |-> TRUE, text |-> text]
PushComment(comment, ch) ==
    IF comment.some THEN SomeComment(Append(comment.text, ch)) ELSE comment

\* The `while let Some(c) = stream.get_next()` loop of scan_block_comment.
\* ended is TRUE when the loop stopped because the input ran out.
RECURSIVE ScanLoop(_, _, _, _)
ScanLoop(ss, c, level, comment) ==
    With(get_next(ss, c), LAMBDA g :
    IF g.ch = None
    THEN [level |-> level, c |-> g.c, comment |-> comment, ended |-> TRUE]
    ELSE
    With(PosAdvance(g.c), LAMBDA c1 :
    With(peek_next(ss, c1), LAMBDA pk :
    With(LET cm1 == PushComment(comment, g.ch) IN
         IF g.ch = "/" /\ pk.ch = "*"
         THEN [c |-> eat_next(ss, pk.c), cm |-> PushComment(cm1, pk.ch), level |-> level + 1]
         ELSE IF g.ch = "*" /\ pk.ch = "/"
         THEN [c |-> eat_next(ss, pk.c), cm |-> PushComment(cm1, pk.ch), level |-> level - 1]
         ELSE IF g.ch \in {"/", "*"}
         THEN [c |-> pk.c, cm |-> cm1, level |-> level]
         ELSE IF g.ch = "\n"
         THEN [c |-> PosNewLine(c1), cm |-> cm1, level |-> level]
         ELSE [c |-> c1, cm |-> cm1, level |-> level],
         LAMBDA r :
    IF r.level = 0
    THEN [level |-> 0, c |-> r.c, comment |-> r.cm, ended |-> FALSE]
    ELSE ScanLoop(ss, r.c, r.level, r.cm)))))

\* A scan that forgets the nesting level when the input runs out.
ScanForgetsLevel(ss, c, level, comment) ==
    With(ScanLoop(ss, c, level, comment), LAMBDA r :
    IF r.ended THEN [r EXCEPT !.level = 0] ELSE r)

\* scan_block_comment: the level, the cursor and the comment after the scan.
scan_block_comment(ss, c, level, comment) == ScanLoop(ss, c, level, comment)

\* The `while let Some(c) = stream.get_next()` loop of a line comment.
RECURSIVE LineCommentLoop(_, _, _)
LineCommentLoop(ss, c, comment) ==
    With(get_next(ss, c), LAMBDA g :
    IF g.ch = None THEN [c |-> g.c, comment |-> comment]
    ELSE IF g.ch = "\n" THEN [c |-> PosNewLine(g.c), comment |-> comment]
    ELSE LineCommentLoop(ss, PosAdvance(g.c), PushComment(comment, g.ch)))

(***************************************************************************)
(* Numbers.                                                                *)
(***************************************************************************)
RECURSIVE DigitsValue(_, _, _)
DigitsValue(s, radix, acc) ==
    IF s = <<>> THEN acc
    ELSE DigitsValue(Tail(s), radix, acc * radix + ToDigit16(Head(s)))

IsRadixDigit(ch, radix) == is_hex_digit(ch) /\ ToDigit16(ch) < radix

\* INT::from_str_radix, and INT::from_str with radix 10: an optional sign and
\* at least one digit of the radix.  The literals of the model are short, so
\* the overflow error of a value beyond 64 bits does not arise.
from_str_radix(s, radix) ==
    LET signed == s # <<>> /\ Head(s) \in {"+", "-"}
        digits == IF signed THEN Tail(s) ELSE s
    IN IF digits = <<>> \/ \E i \in 1..Len(digits) : ~IsRadixDigit(digits[i], radix)
       THEN [ok |-> FALSE, val |-> NoVal]
       ELSE LET v == DigitsValue(digits, radix, 0) IN
            [ok |-> TRUE,
             val |-> [m |-> IF signed /\ Head(s) = "-" THEN 0 - v ELSE v, e |-> 0]]

IndexOf(s, chars) ==
    IF \E i \in 1..Len(s) : s[i] \in chars
    THEN CHOOSE i \in 1..Len(s) : s[i] \in chars /\ \A j \in 1..(i - 1) : s[j] \notin chars
    ELSE 0

AllDigits(s) == \A i \in 1..Len(s) : s[i] \in Digit

RECURSIVE Normalise(_, _)
Normalise(m, e) ==
    IF m = 0 THEN [m |-> 0, e |-> 0]
    ELSE IF m % 10 = 0 THEN Normalise(m \div 10, e + 1)
    ELSE [m |-> m, e |-> e]

\* FloatWrapper::from_str, which is f64::from_str: sign, digits with at most
\* one point and at least one digit, and an optional exponent of e or E, a
\* sign and at least one digit.  The value is kept exact.
FloatFromStr(s) ==
    LET signed == s # <<>> /\ Head(s) \in {"+", "-"}
        body == IF signed THEN Tail(s) ELSE s
        ie == IndexOf(body, {"e", "E"})
        mant == IF ie = 0 THEN body ELSE SubSeq(body, 1, ie - 1)
        expo == IF ie = 0 THEN <<>> ELSE SubSeq(body, ie + 1, Len(body))
        esigned == expo # <<>> /\ Head(expo) \in {"+", "-"}
        edigits == IF esigned THEN Tail(expo) ELSE expo
        ip == IndexOf(mant, {"."})
        int == IF ip = 0 THEN mant ELSE SubSeq(mant, 1, ip - 1)
        frac == IF ip = 0 THEN <<>> ELSE SubSeq(mant, ip + 1, Len(mant))
        ok == /\ AllDigits(int) /\ AllDigits(frac) /\ int \o frac # <<>>
              /\ (ie # 0 => edigits # <<>> /\ AllDigits(edigits))
    IN IF ~ok THEN [ok |-> FALSE, val |-> NoVal]
       ELSE LET m == DigitsValue(int \o frac, 10, 0)
                ev == DigitsValue(edigits, 10, 0)
                e == (IF esigned /\ Head(expo) = "-" THEN 0 - ev ELSE ev) - Len(frac)
            IN [ok |-> TRUE,
                val |-> Normalise(IF signed /\ Head(s) = "-" THEN 0 - m ELSE m, e)]

\* A filter that leaves the separators in.
KeepSep(s) == s

\* .filter(|&&c| c != NUM_SEP)
RemoveSep(s) == SelectSeq(s, LAMBDA ch : ch # NUM_SEP)

\* `valid`, a pointer to is_numeric_digit or to is_hex_digit.
Valid(valid, ch) == IF valid = "is_hex_digit" THEN is_hex_digit(ch) ELSE is_numeric_digit(ch)

ValidOfPrefix(ch) == IF ch \in {"x", "X"} THEN "is_hex_digit" ELSE "is_numeric_digit"

RadixOfPrefix(ch) == IF ch \in {"x", "X"} THEN 16 ELSE IF ch \in {"o", "O"} THEN 8 ELSE 2

\* The `while let Some(next_char) = stream.peek_next()` loop of a number whose
\* first character is first; radix_base 0 is None.
RECURSIVE NumberLoop(_, _, _, _, _, _)
NumberLoop(ss, c, first, result, radix_base, valid) ==
    With(peek_next(ss, c), LAMBDA pk :
    LET next_char == pk.ch
        Break(cc) == [c |-> cc, result |-> result, radix_base |-> radix_base]
    IN
    IF next_char = None THEN Break(pk.c)
    ELSE IF Valid(valid, next_char) \/ next_char = NUM_SEP
    THEN NumberLoop(ss, eat_next(ss, pk.c), first, Append(result, next_char), radix_base, valid)
    ELSE IF next_char = "."
    THEN With(peek_next(ss, get_next(ss, pk.c).c), LAMBDA pk2 :
         LET la == IF pk2.ch = None THEN NUL ELSE pk2.ch
         IN IF la \in Digit
            THEN NumberLoop(ss, PosAdvance(pk2.c), first, Append(result, next_char),
                            radix_base, valid)
            ELSE IF la = "_" \/ la = "."
            THEN Break(unget(pk2.c, next_char))
            ELSE IF ~is_id_first_alphabetic(la)
            THEN NumberLoop(ss, PosAdvance(pk2.c), first, result \o <<next_char, "0">>,
                            radix_base, valid)
            ELSE Break(unget(pk2.c, next_char)))
    ELSE IF next_char = "e"
    THEN With(peek_next(ss, get_next(ss, pk.c).c), LAMBDA pk2 :
         LET la == IF pk2.ch = None THEN NUL ELSE pk2.ch
         IN IF la \in Digit
            THEN NumberLoop(ss, PosAdvance(pk2.c), first, Append(result, next_char),
                            radix_base, valid)
            ELSE IF la \in {"+", "-"}
            THEN With(get_next(ss, PosAdvance(pk2.c)), LAMBDA g3 :
                 NumberLoop(ss, PosAdvance(g3.c), first, result \o <<next_char, g3.ch>>,
                            radix_base, valid))
            ELSE Break(unget(pk2.c, next_char)))
    ELSE IF next_char \in {"x", "o", "b", "X", "O", "B"} /\ first = "0" /\ Len(result) <= 1
    THEN NumberLoop(ss, eat_next(ss, pk.c), first, Append(result, next_char),
                    RadixOfPrefix(next_char), ValidOfPrefix(next_char))
    ELSE Break(pk.c))

\* "Parse number": the token of the collected text.
ParseNumber(result0, radix_base, negated) ==
    LET result == IF negated THEN <<"-">> \o result0 ELSE result0 IN
    IF radix_base # 0
    THEN With(RemoveSep(SubSeq(result, 3, Len(result))), LAMBDA out :
         With(from_str_radix(out, radix_base), LAMBDA r :
         IF r.ok THEN TokNum("IntegerConstant", r.val)
         ELSE TokErr("MalformedNumber", result, 0)))
    ELSE With(RemoveSep(result), LAMBDA out :
         With(from_str_radix(out, 10), LAMBDA i :
         With(FloatFromStr(out), LAMBDA f :
         IF i.ok THEN TokNum("IntegerConstant", i.val)
         ELSE IF f.ok THEN TokNum("FloatConstant", f.val)
         ELSE TokErr("MalformedNumber", result, 0))))

(***************************************************************************)
(* get_identifier: the token and the cursor after it.                      *)
(***************************************************************************)
RECURSIVE IdentifierLoop(_, _, _)
IdentifierLoop(ss, c, result) ==
    With(peek_next(ss, c), LAMBDA pk :
    IF pk.ch # None /\ is_id_continue(pk.ch)
    THEN IdentifierLoop(ss, eat_next(ss, pk.c), Append(result, pk.ch))
    ELSE [c |-> pk.c, result |-> result])

\* A get_identifier that skips the keyword table.
GetIdentifierNoLookup(ss, c, first_char) ==
    With(IdentifierLoop(ss, c, <<first_char>>), LAMBDA r :
    [c |-> r.c,
     tok |-> IF ~is_valid_identifier(r.result)
             THEN TokErr("MalformedIdentifier", r.result, 0)
             ELSE TokText("Identifier", r.result)])

\* A get_identifier that validates the text before it looks it up.
GetIdentifierValidatesFirst(ss, c, first_char) ==
    With(IdentifierLoop(ss, c, <<first_char>>), LAMBDA r :
    [c |-> r.c,
     tok |-> IF ~is_valid_identifier(r.result)
             THEN TokErr("MalformedIdentifier", r.result, 0)
             ELSE IF lookup_from_syntax(r.result) # NoToken
             THEN lookup_from_syntax(r.result)
             ELSE TokText("Identifier", r.result)])

get_identifier(ss, c, first_char) ==
    With(IdentifierLoop(ss, c, <<first_char>>), LAMBDA r :
    With(lookup_from_syntax(r.result), LAMBDA token :
    [c |-> r.c,
     tok |-> IF token # NoToken THEN token
             ELSE IF ~is_valid_identifier(r.result)
             THEN TokErr("MalformedIdentifier", r.result, 0)
             ELSE TokText("Identifier", r.result)]))


(***************************************************************************)
(* get_next_token_inner.                                                   *)
(***************************************************************************)
RECURSIVE SumLen(_, _)
SumLen(ss, n) == IF n = 0 THEN 0 ELSE SumLen(ss, n - 1) + Len(ss[n])

\* How many characters of the input are behind the cursor: taken from the
\* sources and not pushed back.
Consumed(ss, c) ==
    (IF c.index > Len(ss) THEN SumLen(ss, Len(ss)) ELSE SumLen(ss, c.index - 1) + c.off)
    - (IF c.buf # None THEN 1 ELSE 0)

\* Bookkeeping of one pull: whether it met a `/*`, whether the scan of that
\* comment stopped at the end of the input, and how many characters were
\* consumed before the `/*` and after the scan.
NoGhost == [opened |-> FALSE, ended |-> FALSE, cstart |-> 0, cend |-> 0]

\* A symbol arm's outcome: the token and the cursor after it.
Sym(tok, c) == [tok |-> tok, c |-> c]

\* An outcome of one turn of the main loop: a return, or the next turn.
Done(tok, tpos, c, level, gh) ==
    [done |-> TRUE, tok |-> tok, tpos |-> tpos, c |-> c, level |-> level,
     negated |-> FALSE, panic |-> c.panic, gh |-> gh]
Cont(c, level, negated, gh) ==
    [done |-> FALSE, tok |-> NoToken, tpos |-> NONE, c |-> c, level |-> level,
     negated |-> negated, panic |-> c.panic, gh |-> gh]
Panic(c, level, gh) ==
    [done |-> TRUE, tok |-> NoToken, tpos |-> NONE, c |-> c, level |-> level,
     negated |-> FALSE, panic |-> TRUE, gh |-> gh]

\* ('0'..='9', _)
NumberArm(ss, c, ch, negated) ==
    With(NumberLoop(ss, c, ch, <<ch>>, 0, "is_numeric_digit"), LAMBDA n :
    Sym(ParseNumber(n.result, n.radix_base, negated), n.c))

\* A string arm that reports its token where the literal ends.
StringArmAtEnd(ss, st, c, start_pos) ==
    With(parse_string_literal(ss, c, st.max_string_size, "\""), LAMBDA r :
    IF r.ok THEN [tok |-> TokText("StringConstant", r.text), tpos |-> r.c.pos, c |-> r.c]
    ELSE [tok |-> r.err, tpos |-> r.c.pos, c |-> r.c])

\* ('"', _): the token and its position.
StringArm(ss, st, c, start_pos) ==
    With(parse_string_literal(ss, c, st.max_string_size, "\""), LAMBDA r :
    IF r.ok THEN [tok |-> TokText("StringConstant", r.text), tpos |-> start_pos, c |-> r.c]
    ELSE [tok |-> r.err, tpos |-> r.epos, c |-> r.c])

\* A character arm that keeps the first character of a longer content.
CharArmTakesFirst(ss, st, c, start_pos) ==
    With(parse_string_literal(ss, c, st.max_string_size, "'"), LAMBDA r :
    IF ~r.ok THEN [tok |-> r.err, tpos |-> r.epos, c |-> r.c]
    ELSE IF r.text = <<>>
    THEN [tok |-> NoToken, tpos |-> NONE, c |-> [r.c EXCEPT !.panic = TRUE]]
    ELSE [tok |-> TokText("CharConstant", <<r.text[1]>>), tpos |-> start_pos, c |-> r.c])

\* ('\'', _)
CharArm(ss, st, c, start_pos) ==
    With(parse_string_literal(ss, c, st.max_string_size, "'"), LAMBDA r :
    IF ~r.ok THEN [tok |-> r.err, tpos |-> r.epos, c |-> r.c]
    ELSE IF r.text = <<>>
    THEN [tok |-> NoToken, tpos |-> NONE, c |-> [r.c EXCEPT !.panic = TRUE]]
    ELSE IF Len(r.text) > 1
    THEN [tok |-> TokErr("MalformedChar", r.text, 0), tpos |-> start_pos, c |-> r.c]
    ELSE [tok |-> TokText("CharConstant", r.text), tpos |-> start_pos, c |-> r.c])

\* ('+', ...)
PlusArm(ss, st, c, la) ==
    IF la = "=" THEN Sym(Tok("PlusAssign"), eat_next(ss, c))
    ELSE IF la = "+" THEN Sym(TokText("Reserved", <<"+", "+">>), eat_next(ss, c))
    ELSE IF ~st.non_unary THEN Sym(Tok("UnaryPlus"), c)
    ELSE Sym(Tok("Plus"), c)

\* ('-', ...) but the arm that sets negated.
MinusArm(ss, st, c, la) ==
    IF la \in Digit THEN Sym(Tok("Minus"), c)
    ELSE IF la = "=" THEN Sym(Tok("MinusAssign"), eat_next(ss, c))
    ELSE IF la = ">" THEN Sym(TokText("Reserved", <<"-", ">">>), eat_next(ss, c))
    ELSE IF la = "-" THEN Sym(TokText("Reserved", <<"-", "-">>), eat_next(ss, c))
    ELSE IF ~st.non_unary THEN Sym(Tok("UnaryMinus"), c)
    ELSE Sym(Tok("Minus"), c)

\* A `*` arm that returns PowerOf without looking for a `=` after `**`.
StarArmNoPowerOfAssign(ss, c, la) ==
    IF la = ")" THEN Sym(TokText("Reserved", <<"*", ")">>), eat_next(ss, c))
    ELSE IF la = "=" THEN Sym(Tok("MultiplyAssign"), eat_next(ss, c))
    ELSE IF la = "*" THEN Sym(Tok("PowerOf"), eat_next(ss, c))
    ELSE Sym(Tok("Multiply"), c)

\* ('*', ...)
StarArm(ss, c, la) ==
    IF la = ")" THEN Sym(TokText("Reserved", <<"*", ")">>), eat_next(ss, c))
    ELSE IF la = "=" THEN Sym(Tok("MultiplyAssign"), eat_next(ss, c))
    ELSE IF la = "*"
    THEN With(peek_next(ss, eat_next(ss, c)), LAMBDA pk :
         IF pk.ch = "=" THEN Sym(Tok("PowerOfAssign"), eat_next(ss, pk.c))
         ELSE Sym(Tok("PowerOf"), pk.c))
    ELSE Sym(Tok("Multiply"), c)

\* ('.', ...)
PeriodArm(ss, c, la) ==
    IF la = "."
    THEN With(peek_next(ss, eat_next(ss, c)), LAMBDA pk :
         IF pk.ch = "." THEN Sym(TokText("Reserved", <<".", ".", ".">>), eat_next(ss, pk.c))
         ELSE Sym(TokText("Reserved", <<".", ".">>), pk.c))
    ELSE Sym(Tok("Period"), c)

\* ('=', ...)
EqualsArm(ss, c, la) ==
    IF la = "="
    THEN With(peek_next(ss, eat_next(ss, c)), LAMBDA pk :
         IF pk.ch = "=" THEN Sym(TokText("Reserved", <<"=", "=", "=">>), eat_next(ss, pk.c))
         ELSE Sym(Tok("EqualsTo"), pk.c))
    ELSE IF la = ">" THEN Sym(Tok("DoubleArrow"), eat_next(ss, c))
    ELSE Sym(Tok("Equals"), c)

\* (':', ...)
ColonArm(ss, c, la) ==
    IF la = ":"
    THEN With(peek_next(ss, eat_next(ss, c)), LAMBDA pk :
         IF pk.ch = "<" THEN Sym(TokText("Reserved", <<":", ":", "<">>), eat_next(ss, pk.c))
         ELSE Sym(Tok("DoubleColon"), pk.c))
    ELSE IF la = "=" THEN Sym(TokText("Reserved", <<":", "=">>), eat_next(ss, c))
    ELSE Sym(Tok("Colon"), c)

\* ('<', ...)
LessArm(ss, c, la) ==
    IF la = "=" THEN Sym(Tok("LessThanEqualsTo"), eat_next(ss, c))
    ELSE IF la = "-" THEN Sym(TokText("Reserved", <<"<", "-">>), eat_next(ss, c))
    ELSE IF la = "<"
    THEN With(peek_next(ss, eat_next(ss, c)), LAMBDA pk :
         IF pk.ch = "=" THEN Sym(Tok("LeftShiftAssign"), eat_next(ss, pk.c))
         ELSE Sym(Tok("LeftShift"), pk.c))
    ELSE Sym(Tok("LessThan"), c)

\* ('>', ...)
GreaterArm(ss, c, la) ==
    IF la = "=" THEN Sym(Tok("GreaterThanEqualsTo"), eat_next(ss, c))
    ELSE IF la = ">"
    THEN With(peek_next(ss, eat_next(ss, c)), LAMBDA pk :
         IF pk.ch = "=" THEN Sym(Tok("RightShiftAssign"), eat_next(ss, pk.c))
         ELSE Sym(Tok("RightShift"), pk.c))
    ELSE Sym(Tok("GreaterThan"), c)

\* ('!', ...)
BangArm(ss, c, la) ==
    IF la = "="
    THEN With(peek_next(ss, eat_next(ss, c)), LAMBDA pk :
         IF pk.ch = "=" THEN Sym(TokText("Reserved", <<"!", "=", "=">>), eat_next(ss, pk.c))
         ELSE Sym(Tok("NotEqualsTo"), pk.c))
    ELSE Sym(Tok("Bang"), c)

\* ('|', ...)
PipeArm(ss, c, la) ==
    IF la = "|" THEN Sym(Tok("Or"), eat_next(ss, c))
    ELSE IF la = "=" THEN Sym(Tok("OrAssign"), eat_next(ss, c))
    ELSE Sym(Tok("Pipe"), c)

\* ('&', ...)
AmpersandArm(ss, c, la) ==
    IF la = "&" THEN Sym(Tok("And"), eat_next(ss, c))
    ELSE IF la = "=" THEN Sym(Tok("AndAssign"), eat_next(ss, c))
    ELSE Sym(Tok("Ampersand"), c)

\* The arms of one character followed by `=` or not, and the one-character arms.
SimpleArm(ss, c, ch, la) ==
    CASE ch = "{" -> Sym(Tok("LeftBrace"), c)
      [] ch = "}" -> Sym(Tok("RightBrace"), c)
      [] ch = "(" -> IF la = "*" THEN Sym(TokText("Reserved", <<"(", "*">>), eat_next(ss, c))
                     ELSE Sym(Tok("LeftParen"), c)
      [] ch = ")" -> Sym(Tok("RightParen"), c)
      [] ch = "[" -> Sym(Tok("LeftBracket"), c)
      [] ch = "]" -> Sym(Tok("RightBracket"), c)
      [] ch = "#" -> IF la = "{" THEN Sym(Tok("MapStart"), eat_next(ss, c))
                     ELSE Sym(TokText("Reserved", <<"#">>), c)
      [] ch = "/" -> IF la = "=" THEN Sym(Tok("DivideAssign"), eat_next(ss, c))
                     ELSE Sym(Tok("Divide"), c)
      [] ch = ";" -> Sym(Tok("SemiColon"), c)
      [] ch = "," -> Sym(Tok("Comma"), c)
      [] ch = "^" -> IF la = "=" THEN Sym(Tok("XOrAssign"), eat_next(ss, c))
                     ELSE Sym(Tok("XOr"), c)
      [] ch = "~" -> Sym(TokText("Reserved", <<"~">>), c)
      [] ch = "%" -> IF la = "=" THEN Sym(Tok("ModuloAssign"), eat_next(ss, c))
                     ELSE Sym(Tok("Modulo"), c)
      [] ch = "@" -> Sym(TokText("Reserved", <<"@">>), c)
      [] ch = "$" -> Sym(TokText("Reserved", <<"$">>), c)

SimpleChars == {"{", "}", "(", ")", "[", "]", "#", "/", ";", ",", "^", "~", "%", "@", "$"}

\* A line-comment arm that keeps every comment, whatever the flags.
LineCommentArmKeepsAll(ss, st, c) ==
    LineCommentLoop(ss, eat_next(ss, c), SomeComment(<<"/", "/">>))

\* ('/', '/'): the comment, if one is kept, and the cursor after the line.
LineCommentArm(ss, st, c) ==
    With(peek_next(ss, eat_next(ss, c)), LAMBDA pk :
    LET doc == pk.ch = "/" /\ ~st.disable_doc_comments IN
    With(IF doc THEN eat_next(ss, pk.c) ELSE pk.c, LAMBDA c2 :
    With(peek_next(ss, c2), LAMBDA pk2 :
    LET comment == IF doc
                   THEN IF pk2.ch = "/" THEN NoComment ELSE SomeComment(<<"/", "/", "/">>)
                   ELSE IF st.include_comments THEN SomeComment(<<"/", "/">>)
                   ELSE NoComment
    IN LineCommentLoop(ss, IF doc THEN pk2.c ELSE c2, comment))))

\* ('/', '*'): the comment, if one is kept, the level and the cursor after the
\* scan.
BlockCommentArm(ss, st, c) ==
    With(peek_next(ss, eat_next(ss, c)), LAMBDA pk :
    LET doc == pk.ch = "*" /\ ~st.disable_doc_comments IN
    With(IF doc THEN eat_next(ss, pk.c) ELSE pk.c, LAMBDA c2 :
    With(peek_next(ss, c2), LAMBDA pk2 :
    LET comment == IF doc
                   THEN IF pk2.ch = "*" THEN NoComment ELSE SomeComment(<<"/", "*", "*">>)
                   ELSE IF st.include_comments THEN SomeComment(<<"/", "*">>)
                   ELSE NoComment
    IN scan_block_comment(ss, IF doc THEN pk2.c ELSE c2, 1, comment))))

\* One turn of `while let Some(c) = stream.get_next()`: the match on
\* (c, lookahead).  c is the cursor after pos.advance() and the peek.
MatchArm(ss, st, c, ch, la, level, negated, gh) ==
    LET start_pos == c.pos
        Ret(r) == Done(r.tok, start_pos, r.c, level, gh)
    IN
    IF ch = "\n" THEN Cont(PosNewLine(c), level, negated, gh)
    ELSE IF ch \in Digit THEN Ret(NumberArm(ss, c, ch, negated))
    ELSE IF ch \in Lower \/ ch = "_" \/ ch \in Upper THEN Ret(get_identifier(ss, c, ch))
    ELSE IF ch = "\""
    THEN With(StringArm(ss, st, c, start_pos), LAMBDA r : Done(r.tok, r.tpos, r.c, level, gh))
    ELSE IF ch = "'" /\ la = "'"
    THEN Done(TokErr("MalformedChar", <<>>, 0), start_pos, c, level, gh)
    ELSE IF ch = "'"
    THEN With(CharArm(ss, st, c, start_pos), LAMBDA r : Done(r.tok, r.tpos, r.c, level, gh))
    ELSE IF ch = "+" THEN Ret(PlusArm(ss, st, c, la))
    ELSE IF ch = "-" /\ la \in Digit /\ ~st.non_unary THEN Cont(c, level, TRUE, gh)
    ELSE IF ch = "-" THEN Ret(MinusArm(ss, st, c, la))
    ELSE IF ch = "*" THEN Ret(StarArm(ss, c, la))
    ELSE IF ch = "/" /\ la = "/"
    THEN With(LineCommentArm(ss, st, c), LAMBDA r :
         IF r.comment.some
         THEN Done(TokText("Comment", r.comment.text), start_pos, r.c, level, gh)
         ELSE Cont(r.c, level, negated, gh))
    ELSE IF ch = "/" /\ la = "*"
    THEN With(BlockCommentArm(ss, st, c), LAMBDA r :
         LET gh1 == [opened |-> TRUE, ended |-> r.ended,
                     cstart |-> Consumed(ss, c) - 1, cend |-> Consumed(ss, r.c)]
         IN IF r.comment.some
            THEN Done(TokText("Comment", r.comment.text), start_pos, r.c, r.level, gh1)
            ELSE Cont(r.c, r.level, negated, gh1))
    ELSE IF ch = "." THEN Ret(PeriodArm(ss, c, la))
    ELSE IF ch = "=" THEN Ret(EqualsArm(ss, c, la))
    ELSE IF ch = ":" THEN Ret(ColonArm(ss, c, la))
    ELSE IF ch = "<" THEN Ret(LessArm(ss, c, la))
    ELSE IF ch = ">" THEN Ret(GreaterArm(ss, c, la))
    ELSE IF ch = "!" THEN Ret(BangArm(ss, c, la))
    ELSE IF ch = "|" THEN Ret(PipeArm(ss, c, la))
    ELSE IF ch = "&" THEN Ret(AmpersandArm(ss, c, la))
    ELSE IF ch \in SimpleChars THEN Ret(SimpleArm(ss, c, ch, la))
    ELSE IF is_whitespace(ch) THEN Cont(c, level, negated, gh)
    ELSE Done(TokErr("UnexpectedInput", <<ch>>, 0), start_pos, c, level, gh)

\* The main loop and the end of the input after it.
RECURSIVE MainLoop(_, _, _, _, _, _)
MainLoop(ss, st, c, level, negated, gh) ==
    With(get_next(ss, c), LAMBDA g :
    With(PosAdvance(g.c), LAMBDA c1 :
    IF g.ch = None
    THEN IF st.end_with_none THEN Done(NoToken, NONE, c1, level, gh)
         ELSE Done(Tok("EOF"), c1.pos, c1, level, gh)
    ELSE With(peek_next(ss, c1), LAMBDA pk :
         With(MatchArm(ss, st, pk.c, g.ch, IF pk.ch = None THEN NUL ELSE pk.ch,
                       level, negated, gh), LAMBDA r :
         IF r.done THEN r ELSE MainLoop(ss, st, r.c, r.level, r.negated, r.gh)))))

get_next_token_inner(ss, st, c) ==
    IF st.comment_level > 0
    THEN LET start_pos == c.pos
             comment == IF st.include_comments THEN SomeComment(<<>>) ELSE NoComment
         IN With(scan_block_comment(ss, c, st.comment_level, comment), LAMBDA r :
            IF st.include_comments
            THEN Done(TokText("Comment", r.comment.text), start_pos, r.c, r.level, NoGhost)
            ELSE IF ~st.disable_doc_comments /\ ~r.comment.some
            THEN \* comment.as_ref().unwrap()
                 Panic(r.c, r.level, NoGhost)
            ELSE IF ~st.disable_doc_comments /\ is_doc_comment(r.comment.text)
            THEN Done(TokText("Comment", r.comment.text), start_pos, r.c, r.level, NoGhost)
            ELSE MainLoop(ss, st, r.c, r.level, FALSE, NoGhost))
    ELSE MainLoop(ss, st, c, st.comment_level, FALSE, NoGhost)

\* A get_next_token that clears non_unary when there is no token.
GetNextTokenClearsOnNone(ss, st, c) ==
    With(get_next_token_inner(ss, st, c), LAMBDA r :
    [tok |-> r.tok, tpos |-> r.tpos, c |-> r.c, panic |-> r.panic, gh |-> r.gh,
     state |-> [st EXCEPT !.comment_level = r.level,
                          !.non_unary = r.tok # NoToken /\ ~is_next_unary(r.tok)]])

\* get_next_token: the result of the inner function and the state after it.
get_next_token(ss, st, c) ==
    With(get_next_token_inner(ss, st, c), LAMBDA r :
    [tok |-> r.tok, tpos |-> r.tpos, c |-> r.c, panic |-> r.panic, gh |-> r.gh,
     state |-> [st EXCEPT !.comment_level = r.level,
                          !.non_unary = IF r.tok # NoToken THEN ~is_next_unary(r.tok)
                                        ELSE st.non_unary]])

(***************************************************************************)
(* TokenIterator::next without a mapper (Engine::lex): what the iterator   *)
(* makes of the raw token, given the engine's custom keywords and disabled *)
(* symbols.  The message of an ImproperSymbol error is kept as its number  *)
(* in ImproperMessages.                                                    *)
(***************************************************************************)
ImproperMessages ==
    << "'===' is not a valid operator. This is not JavaScript! Should it be '=='?",
       "'!==' is not a valid operator. This is not JavaScript! Should it be '!='?",
       "'->' is not a valid symbol. This is not C or C++!",
       "'<-' is not a valid symbol. This is not Go! Should it be '<='?",
       "':=' is not a valid assignment operator. This is not Go or Pascal! Should it be simply '='?",
       "'::<>' is not a valid symbol. This is not Rust! Should it be '::'?",
       "'(* .. *)' is not a valid comment format. This is not Pascal! Should it be '/* .. */'?",
       "'#' is not a valid symbol. Should it be '#{'?",
       "'{}' is a reserved symbol",
       "reserved symbol '{}' is disabled" >>

MessageOf(msg) == CHOOSE i \in 1..Len(ImproperMessages) : ImproperMessages[i] = msg

ImproperSymbol(s, i) == TokErr("ImproperSymbol", s, i)

\* The arms of the match on (s.as_str(), custom) that name a symbol, with
\* the number of the message.
ForeignArms ==
    << << <<"=", "=", "=">>, 1 >>, << <<"!", "=", "=">>, 2 >>, << <<"-", ">">>, 3 >>,
       << <<"<", "-">>, 4 >>, << <<":", "=">>, 5 >>, << <<":", ":", "<">>, 6 >>,
       << <<"(", "*">>, 7 >>, << <<"*", ")">>, 7 >>,
       << <<"b", "e", "g", "i", "n">>, 7 >>, << <<"e", "n", "d">>, 7 >>,
       << <<"#">>, 8 >> >>

\* A match on Reserved(s) that looks at the named symbols before the custom
\* keywords.
ReservedArmForeignFirst(eng, s) ==
    IF \E i \in 1..Len(ForeignArms) : ForeignArms[i][1] = s
    THEN ImproperSymbol(s, ForeignArms[CHOOSE i \in 1..Len(ForeignArms) : ForeignArms[i][1] = s][2])
    ELSE IF s \in eng.custom_keywords THEN TokText("Custom", s)
    ELSE TokText("Reserved", s)

\* Some((Token::Reserved(s), pos)): the token the match gives.
ReservedArm(eng, s) ==
    LET custom == s \in eng.custom_keywords IN
    IF ~custom /\ \E i \in 1..Len(ForeignArms) : ForeignArms[i][1] = s
    THEN ImproperSymbol(s, ForeignArms[CHOOSE i \in 1..Len(ForeignArms) : ForeignArms[i][1] = s][2])
    ELSE IF custom THEN TokText("Custom", s)
    ELSE IF ~is_valid_identifier(s) THEN ImproperSymbol(s, 9)
    ELSE IF s \in eng.disabled_symbols THEN ImproperSymbol(s, 10)
    ELSE TokText("Reserved", s)

\* An arm for the other tokens that lets an active keyword through.
OtherArmLenient(eng, token) ==
    IF token.kind = "Identifier" /\ token.text \in eng.custom_keywords
    THEN [panic |-> FALSE, tok |-> TokText("Custom", token.text)]
    ELSE IF syntax(token) \in eng.disabled_symbols
    THEN [panic |-> FALSE, tok |-> TokText("Reserved", syntax(token))]
    ELSE [panic |-> FALSE, tok |-> token]

\* The arms after Reserved: a custom identifier, a custom standard token
\* (unreachable!() when it is not disabled), a disabled symbol, the rest.
OtherArm(eng, token) ==
    IF token.kind = "Identifier" /\ token.text \in eng.custom_keywords
    THEN [panic |-> FALSE, tok |-> TokText("Custom", token.text)]
    ELSE IF syntax(token) \in eng.custom_keywords
    THEN IF syntax(token) \in eng.disabled_symbols
         THEN [panic |-> FALSE, tok |-> TokText("Custom", syntax(token))]
         ELSE [panic |-> TRUE, tok |-> NoToken]
    ELSE IF syntax(token) \in eng.disabled_symbols
    THEN [panic |-> FALSE, tok |-> TokText("Reserved", syntax(token))]
    ELSE [panic |-> FALSE, tok |-> token]

\* The match of next on what get_next_token returned.
next_token(eng, raw) ==
    IF raw = NoToken THEN [panic |-> FALSE, tok |-> NoToken]
    ELSE IF raw.kind = "Reserved" THEN [panic |-> FALSE, tok |-> ReservedArm(eng, raw.text)]
    ELSE OtherArm(eng, raw)

(***************************************************************************)
(* The state machine.                                                      *)
(***************************************************************************)
TokenizeState(max, ewn, inc, ddc) ==
    [max_string_size |-> max, non_unary |-> FALSE, comment_level |-> 0,
     end_with_none |-> ewn, include_comments |-> inc, disable_doc_comments |-> ddc]

\* An engine with no disabled symbol and no custom keyword.
NoEngine == [disabled_symbols |-> {}, custom_keywords |-> {}]

NoCall == [op |-> "none", before |-> NONE, rhs |-> NONE, raw |-> NoToken]

\* The state lex_raw builds, for the sources ss and the flags of st.
InitOf(ss, st) ==
    /\ streams = ss
    /\ buf = None
    /\ index = 1
    /\ off = 0
    /\ pos = Position(1, 0)
    /\ state = st
    /\ tokens = <<>>
    /\ panicked = FALSE
    /\ ghost = NoGhost
    /\ engine = NoEngine
    /\ call = NoCall

Texts(alphabet, n) == UNION {[1..k -> alphabet] : k \in 0..n}

TotalLen == SumLen(streams, Len(streams))

\* One call of get_next_token by the consumer.  A panic ends the session.
Pull ==
    /\ ~panicked
    /\ Len(tokens) < TotalLen + ExtraPulls
    /\ \E r \in {get_next_token(streams, state, Cursor(buf, index, off, pos))} :
       IF r.panic
       THEN /\ panicked' = TRUE
            /\ UNCHANGED <<streams, buf, index, off, pos, state, tokens, ghost, engine, call>>
       ELSE /\ buf' = r.c.buf
            /\ index' = r.c.index
            /\ off' = r.c.off
            /\ pos' = r.c.pos
            /\ state' = r.state
            /\ tokens' = Append(tokens, [tok |-> r.tok, pos |-> r.tpos])
            /\ ghost' = r.gh
            /\ UNCHANGED <<streams, panicked, engine, call>>

Next == Pull

\* One call of TokenIterator::next.  A panic, of get_next_token or of the
\* match, ends the session.
IterNext ==
    /\ ~panicked
    /\ Len(tokens) < TotalLen + ExtraPulls
    /\ \E r \in {get_next_token(streams, state, Cursor(buf, index, off, pos))} :
       IF r.panic
       THEN /\ panicked' = TRUE
            /\ call' = [NoCall EXCEPT !.op = "next"]
            /\ UNCHANGED <<streams, buf, index, off, pos, state, tokens, ghost, engine>>
       ELSE \E n \in {next_token(engine, r.tok)} :
            /\ buf' = r.c.buf
            /\ index' = r.c.index
            /\ off' = r.c.off
            /\ pos' = r.c.pos
            /\ state' = r.state
            /\ ghost' = r.gh
            /\ call' = [NoCall EXCEPT !.op = "next", !.raw = r.tok]
            /\ panicked' = n.panic
            /\ tokens' = IF n.panic THEN tokens
                          ELSE Append(tokens, [tok |-> n.tok, pos |-> r.tpos])
            /\ UNCHANGED <<streams, engine>>

NextIter == IterNext

CommentAlphabet == {"/", "*", "a", "\n"}

Init ==
    \E text \in Texts(CommentAlphabet, MaxLen), ewn \in BOOLEAN, inc \in BOOLEAN, ddc \in BOOLEAN :
        InitOf(<<text>>, TokenizeState(0, ewn, inc, ddc))

Spec == Init /\ [][Next]_vars


(***************************************************************************)
(* Specifications over other inputs.                                       *)
(***************************************************************************)
PosAlphabet == {"\"", "\n", "a", "1", ".", "/"}

InitText ==
    \E text \in Texts(PosAlphabet, MaxTextLen), inc \in BOOLEAN :
        InitOf(<<text>>, TokenizeState(0, FALSE, inc, FALSE))

SpecText == InitText /\ [][Next]_vars

\* The fixed lexemes: the syntax of every fixed-syntax variant but EOF, and
\* `null`.
FixedKinds == ({SyntaxTable[i][1] : i \in 1..Len(SyntaxTable)} \ {"EOF"}) \cup {"Null"}

FixedLexemes == {syntax(Tok(k)) : k \in FixedKinds}

\* Lexemes of the other tokens: an identifier, literals, reserved symbols, a
\* doc-comment, an unexpected character.
SampleLexemes ==
    { <<"x">>, <<"5">>, <<"1", ".", "5">>, <<"\"", "s", "\"">>, <<"'", "c", "'">>,
      <<"n", "e", "w">>, <<"#">>, <<"~">>, <<"+", "+">>, <<"-", "-">>, <<".", ".">>,
      <<"/", "*", "*", "d", "*", "/">>, <<"?">>, <<"_", "_">> }

Signs == { <<"+">>, <<"-">> }

SignTails == { <<>>, <<"5">>, <<"x">>, <<" ", "5">> }

\* A sign, alone or after one lexeme and a space, and what follows it.
InitUnary ==
    \E A \in FixedLexemes \cup SampleLexemes \cup {<<>>}, S \in Signs, B \in SignTails :
        InitOf(<< (IF A = <<>> THEN <<>> ELSE A \o <<" ">>) \o S \o B >>,
               TokenizeState(0, FALSE, FALSE, FALSE))

SpecUnary == InitUnary /\ [][Next]_vars

NumAlphabet == {"0", "1", "x", "b", "_", ".", "e", "-"}

\* A digit and up to MaxNumLen - 1 further characters, alone or after a `-`.
InitNum ==
    \E d \in {"0", "1"}, rest \in Texts(NumAlphabet, MaxNumLen - 1), neg \in BOOLEAN :
        InitOf(<< (IF neg THEN <<"-">> ELSE <<>>) \o <<d>> \o rest >>,
               TokenizeState(0, FALSE, FALSE, FALSE))

SpecNum == InitNum /\ [][Next]_vars

LexemeTails == { <<>>, <<"x">>, <<" ", "x">>, <<"=">> }

\* One fixed lexeme and what follows it.
InitOps ==
    \E A \in FixedLexemes, B \in LexemeTails :
        InitOf(<< A \o B >>, TokenizeState(0, FALSE, FALSE, FALSE))

SpecOps == InitOps /\ [][Next]_vars

IdAlphabet == {"a", "Z", "_", "1"}

\* Words of the keyword table that are not among the fixed lexemes, and a
\* statement of the unit test.
ReservedSamples ==
    { <<"n", "e", "w">>, <<"p", "r", "i", "n", "t">>, <<"t", "h", "i", "s">>,
      <<"b", "e", "g", "i", "n">>, <<"F", "n">>, <<"g", "o">>,
      <<"i", "s", "_", "d", "e", "f", "_", "f", "n">> }

UnitTestScript ==
    <<"l", "e", "t", " ", "x", " ", "=", " ", "n", "u", "l", "l", ";", " ", "x">>

\* One word: over the identifier alphabet, a fixed lexeme or a reserved word;
\* or the statement of the unit test.
InitIdent ==
    \E text \in Texts(IdAlphabet, MaxIdLen) \cup FixedLexemes \cup ReservedSamples
                 \cup {UnitTestScript} :
        InitOf(<<text>>, TokenizeState(0, FALSE, FALSE, FALSE))

SpecIdent == InitIdent /\ [][Next]_vars

Quotes == {"\"", "'"}

\* Pieces of a literal's body: a plain character, a newline, a quote, the
\* escapes, and escapes that are cut short, have a wrong digit or name no
\* code point.
PlainPieces == { <<"a">>, <<"\n">>, <<"\"">>, <<"'">> }

EscapePieces ==
    { <<"\\", "\\">>, <<"\\", "t">>, <<"\\", "n">>, <<"\\", "r">>,
      <<"\\", "\"">>, <<"\\", "'">>,
      <<"\\", "x", "4", "1">>, <<"\\", "u", "0", "0", "4", "1">>,
      <<"\\", "U", "0", "0", "0", "0", "0", "0", "4", "1">>,
      <<"\\", "u", "0", "0", "e", "9">> }

BadEscapePieces ==
    { <<"\\">>, <<"\\", "q">>, <<"\\", "x", "4">>, <<"\\", "x", "g", "1">>,
      <<"\\", "u", "D", "8", "0", "0">>,
      <<"\\", "U", "0", "0", "1", "1", "0", "0", "0", "0">> }

StrPieces == PlainPieces \cup EscapePieces \cup BadEscapePieces \cup {<<>>}

\* A string or character literal of two pieces, closed or not, and nothing
\* after it; no maximum length.
InitStr ==
    \E q \in Quotes, P1 \in StrPieces, P2 \in StrPieces, closed \in BOOLEAN :
        InitOf(<< <<q>> \o P1 \o P2 \o (IF closed THEN <<q>> ELSE <<>>) >>,
               TokenizeState(0, FALSE, FALSE, FALSE))

SpecStr == InitStr /\ [][Next]_vars

\* Pieces that each decode to one character: one byte, one byte from an
\* escape, two bytes from an escape.
SizedPieces == { <<"a">>, <<"\\", "x", "4", "1">>, <<"\\", "u", "0", "0", "e", "9">> }

MaxSizes == {0, 1, 2}

\* A literal of up to three characters, closed or not, under each maximum
\* string size (0: none).
InitStrMax ==
    \E q \in Quotes, P1 \in SizedPieces \cup {<<>>}, P2 \in SizedPieces \cup {<<>>},
       P3 \in SizedPieces \cup {<<>>}, closed \in BOOLEAN, max \in MaxSizes :
        InitOf(<< <<q>> \o P1 \o P2 \o P3 \o (IF closed THEN <<q>> ELSE <<>>) >>,
               TokenizeState(max, FALSE, FALSE, FALSE))

SpecStrMax == InitStrMax /\ [][Next]_vars

RadixPrefixes ==
    { <<"0", "x">>, <<"0", "X">>, <<"0", "o">>, <<"0", "O">>, <<"0", "b">>, <<"0", "B">> }

RadixAlphabet == {"0", "1", "7", "A", "f", "_"}

RadixSamples == { <<"1", "_", "_", "0", "0", "0">> }

\* Digits and separators, after a radix prefix or without one.
InitRadix ==
    \E prefix \in RadixPrefixes \cup {<<>>},
       body \in Texts(RadixAlphabet, MaxRadixLen) \cup RadixSamples :
        InitOf(<< prefix \o body >>, TokenizeState(0, FALSE, FALSE, FALSE))

SpecRadix == InitRadix /\ [][Next]_vars

Mantissas == { <<"1">>, <<"1", ".", "5">> }

ExponentMarkers == {"e", "E"}

ExpAlphabet == {"5", "+", "-", "a"}

\* A decimal literal, an exponent marker and what follows it.
InitExp ==
    \E mant \in Mantissas, marker \in ExponentMarkers, tail \in Texts(ExpAlphabet, MaxExpLen) :
        InitOf(<< mant \o <<marker>> \o tail >>, TokenizeState(0, FALSE, FALSE, FALSE))

SpecExp == InitExp /\ [][Next]_vars

\* The symbols the iterator has a message for, and a call, an assignment
\* and a sum.
IterSamples ==
    { <<"=", "=", "=">>, <<"!", "=", "=">>, <<"-", ">">>, <<"<", "-">>, <<":", "=">>,
      <<":", ":", "<">>, <<"(", "*">>, <<"*", ")">>, <<"e", "n", "d">>,
      <<"p", "r", "i", "n", "t", "(", "1", ")">>,
      <<"l", "e", "t", " ", "x", " ", "=", " ", "1">>,
      <<"x", " ", "+", " ", "c">> }

IterLexemes == FixedLexemes \cup SampleLexemes \cup ReservedSamples \cup IterSamples

\* Texts a host registers as custom keywords, and texts it disables.
CustomTexts ==
    { <<"=", "=", "=">>, <<"-", ">">>, <<"#">>, <<"n", "e", "w">>, <<"b", "e", "g", "i", "n">>,
      <<"p", "r", "i", "n", "t">>, <<"x">>, <<"c">>, <<"s", "t", "r", "i", "n", "g">>,
      <<"l", "e", "t">>, <<"+">> }

DisabledTexts ==
    { <<"=", "=", "=">>, <<"~">>, <<"n", "e", "w">>, <<"b", "e", "g", "i", "n">>,
      <<"p", "r", "i", "n", "t">>, <<"x">>, <<"l", "e", "t">>, <<"+">> }

\* The state eng.lex(ss) builds.
InitOn(eng, ss) ==
    /\ streams = ss
    /\ buf = None
    /\ index = 1
    /\ off = 0
    /\ pos = Position(1, 0)
    /\ state = TokenizeState(0, FALSE, FALSE, FALSE)
    /\ tokens = <<>>
    /\ panicked = FALSE
    /\ ghost = NoGhost
    /\ engine = eng
    /\ call = NoCall

\* One lexeme or short script, and an engine with at most one custom keyword
\* and at most one disabled symbol.
InitIter ==
    \E text \in IterLexemes,
       custom \in {{}} \cup {{k} : k \in CustomTexts},
       disabled \in {{}} \cup {{k} : k \in DisabledTexts} :
        InitOn([disabled_symbols |-> disabled, custom_keywords |-> custom], <<text>>)

SpecIter == InitIter /\ [][NextIter]_vars

\* A sign, alone or after one lexeme and a space, and what follows it; the
\* end of the input is an EOF token or None.
InitFlag ==
    \E A \in FixedLexemes \cup SampleLexemes \cup {<<>>}, S \in Signs, B \in SignTails,
       ewn \in BOOLEAN :
        InitOf(<< (IF A = <<>> THEN <<>> ELSE A \o <<" ">>) \o S \o B >>,
               TokenizeState(0, ewn, FALSE, FALSE))

SpecFlag == InitFlag /\ [][Next]_vars

MultiAlphabet == {"1", "2", "=", "/", "*", "\"", "\n"}

\* A text cut into three sources, any of them empty.
InitMulti ==
    \E text \in Texts(MultiAlphabet, MaxMultiLen) :
    \E i \in 0..Len(text) : \E j \in i..Len(text) :
        InitOf(<< SubSeq(text, 1, i), SubSeq(text, i + 1, j), SubSeq(text, j + 1, Len(text)) >>,
               TokenizeState(0, FALSE, FALSE, FALSE))

SpecMulti == InitMulti /\ [][Next]_vars

\* Comments of each form: plain and doc, block and line, and a block comment
\* with four stars.
CommentSamples ==
    { <<"/", "*", "a", "*", "/">>, <<"/", "*", "*", "a", "*", "/">>,
      <<"/", "*", "*", "*", "*", "/">>,
      <<"/", "/", "a", "\n">>, <<"/", "/", "/", "a", "\n">>, <<"/", "/", "/", "/", "\n">> }

CommentHeads == { <<>>, <<"(">>, <<"x">>, <<"1">> }

CommentTails == { <<>>, <<"x">>, <<"-", "1">>, <<"+", "x">> }

\* A comment, after a lexeme or not, and what follows it, under each pair of
\* include_comments and disable_doc_comments.
InitRetain ==
    \E A \in CommentHeads, Cm \in CommentSamples, B \in CommentTails,
       inc \in BOOLEAN, ddc \in BOOLEAN :
        InitOf(<< A \o Cm \o B >>, TokenizeState(0, FALSE, inc, ddc))

SpecRetain == InitRetain /\ [][Next]_vars

(***************************************************************************)
(* Position on its own: calls of advance and new_line, and of +, on        *)
(* positions near the ends of the 16-bit range.                            *)
(***************************************************************************)
NearEnd(n) == n <= PosWindow \/ n >= U16Max - PosWindow

EndValues == (0..PosWindow) \cup ((U16Max - PosWindow)..U16Max)

\* The positions Position::new makes: line is not zero.
NewPositions == { Position(l, p) : l \in EndValues \ {0}, p \in EndValues }

InitAt(p) ==
    /\ streams = <<>>
    /\ buf = None
    /\ index = 1
    /\ off = 0
    /\ pos = p
    /\ state = TokenizeState(0, FALSE, FALSE, FALSE)
    /\ tokens = <<>>
    /\ panicked = FALSE
    /\ ghost = NoGhost
    /\ engine = NoEngine
    /\ call = NoCall

InitPosition == \E p \in NewPositions : InitAt(p)

CallOn(op, rhs) == [NoCall EXCEPT !.op = op, !.before = pos, !.rhs = rhs]

\* pos.advance()
Advance ==
    /\ ~panicked /\ NearEnd(pos.line) /\ NearEnd(pos.pos)
    /\ call' = CallOn("advance", NONE)
    /\ IF AdvancePanics(pos) THEN panicked' = TRUE /\ pos' = pos
       ELSE pos' = advance(pos) /\ panicked' = panicked
    /\ UNCHANGED <<streams, buf, index, off, state, tokens, ghost, engine>>

\* pos.new_line()
NewLine ==
    /\ ~panicked /\ NearEnd(pos.line) /\ NearEnd(pos.pos)
    /\ call' = CallOn("new_line", NONE)
    /\ IF NewLinePanics(pos) THEN panicked' = TRUE /\ pos' = pos
       ELSE pos' = new_line(pos) /\ panicked' = panicked
    /\ UNCHANGED <<streams, buf, index, off, state, tokens, ghost, engine>>

NextPosition == Advance \/ NewLine

SpecPosition == InitPosition /\ [][NextPosition]_vars

InitAdd == \E p \in NewPositions \cup {NONE} : InitAt(p)

\* pos += rhs
Add ==
    /\ ~panicked /\ NearEnd(pos.line) /\ NearEnd(pos.pos)
    /\ \E rhs \in NewPositions \cup {NONE} :
       \E r \in add(pos, rhs) :
           /\ call' = CallOn("add", rhs)
           /\ pos' = r.p
           /\ panicked' = r.panic
    /\ UNCHANGED <<streams, buf, index, off, state, tokens, ghost, engine>>

NextAdd == Add

SpecAdd == InitAdd /\ [][NextAdd]_vars

(***************************************************************************)
(* Properties.                                                             *)
(***************************************************************************)
\* The whole input as one text.
RECURSIVE Concat(_, _)
Concat(ss, n) == IF n = 0 THEN <<>> ELSE Concat(ss, n - 1) \o ss[n]

Input == Concat(streams, Len(streams))

\* The consumed part of the input.
ConsumedText == SubSeq(Input, 1, Consumed(streams, Cursor(buf, index, off, pos)))

IsEndMarker(t) == t.tok.kind \in {"EOF", "None"}

EndSeen == \E i \in 1..Len(tokens) : IsEndMarker(tokens[i])

LastToken == tokens[Len(tokens)]

\* C1: no pull panics: whatever the input, the flags and the pulls made so
\* far, get_next_token returns a token or the end marker.
C1_NoPullPanics == ~panicked

\* C2: the end marker is reached after finitely many pulls: a pull that does
\* not return it consumes at least one character, so after more pulls than
\* the input has characters an EOF token or None has been returned.
C2_EndMarkerReached == Len(tokens) > TotalLen => EndSeen

CountOf(s, ch) == Cardinality({i \in 1..Len(s) : s[i] = ch})

LastIndexOf(s, ch) ==
    IF \E i \in 1..Len(s) : s[i] = ch
    THEN CHOOSE i \in 1..Len(s) : s[i] = ch /\ \A j \in (i + 1)..Len(s) : s[j] # ch
    ELSE 0

\* C3: the Position counts the consumed characters: its line is 1 + the
\* newlines consumed and its column the characters consumed since the last
\* of them.  Stated for the pulls before the end marker is returned.
C3_PositionCountsConsumed ==
    ~EndSeen =>
        /\ pos.line = 1 + CountOf(ConsumedText, "\n")
        /\ pos.pos = Len(ConsumedText) - LastIndexOf(ConsumedText, "\n")

\* The nesting counter of a block comment, read off the text: i is the next
\* character, level the counter; the result is the number of characters up to
\* the end of the comment (the whole text when the counter never reaches 0).
RECURSIVE NestingEnd(_, _, _)
NestingEnd(text, i, level) ==
    IF level = 0 THEN i - 1
    ELSE IF i > Len(text) THEN Len(text)
    ELSE IF i < Len(text) /\ text[i] = "/" /\ text[i + 1] = "*"
    THEN NestingEnd(text, i + 2, level + 1)
    ELSE IF i < Len(text) /\ text[i] = "*" /\ text[i + 1] = "/"
    THEN NestingEnd(text, i + 2, level - 1)
    ELSE NestingEnd(text, i + 1, level)

\* C4: a block comment opened by `/*` ends right after the `*/` that brings
\* the nesting counter (1 at the opening, +1 per further `/*`, -1 per `*/`) to
\* 0, and scanning goes on from there.
C4_CommentEndsAtNestingZero ==
    ghost.opened => ghost.cend = NestingEnd(Input, ghost.cstart + 3, 1)

\* C5: when the input ends inside a block comment the scan has consumed all
\* of the input, the pull returns the end marker or the retained comment and
\* no LexError, and comment_level is left greater than 0.
C5_UnterminatedCommentIsSilent ==
    (ghost.opened /\ ghost.ended) =>
        /\ ConsumedText = Input
        /\ LastToken.tok.kind \in {"EOF", "None", "Comment"}
        /\ LastToken.tok.kind = "Comment" =>
               LastToken.tok.text = SubSeq(Input, ghost.cstart + 1, Len(Input))
        /\ state.comment_level > 0

C5_Witness ==
    /\ ghost.opened /\ ghost.ended
    /\ state.comment_level = 2
    /\ LastToken.tok.kind = "EOF"

\* The text of the comment the input starts with: a line comment up to its
\* newline, a block comment up to where its scan stopped.
FirstCommentText ==
    IF StartsWith(Input, <<"/", "/">>)
    THEN LET n == IndexOf(Input, {"\n"}) IN
         IF n = 0 THEN Input ELSE SubSeq(Input, 1, n - 1)
    ELSE SubSeq(Input, 1, ghost.cend)

\* C6: the comment an input starts with is emitted with its text when
\* include_comments is set; when it is clear, it is emitted if and only if it
\* is a doc-comment and disable_doc_comments is clear.
C6_CommentRetention ==
    (Len(tokens) = 1 /\ (StartsWith(Input, <<"/", "/">>) \/ StartsWith(Input, <<"/", "*">>))) =>
        LET emitted == tokens[1].tok.kind = "Comment" IN
        /\ state.include_comments =>
               emitted /\ tokens[1].tok.text = FirstCommentText
        /\ ~state.include_comments =>
               (emitted <=> (is_doc_comment(FirstCommentText) /\ ~state.disable_doc_comments))



\* What the input of a sign case looks like: the lexeme A and a space (or
\* nothing), the sign S, the tail B.
SignCase(A, S, B) == (IF A = <<>> THEN <<>> ELSE A \o <<" ">>) \o S \o B

\* The sign came out unary: the unary token, or, for a `-` right before a
\* digit, the negative literal.
UnaryOutcome(t, S, B) ==
    IF S = <<"-">> /\ B = <<"5">>
    THEN t = TokNum("IntegerConstant", [m |-> -5, e |-> 0])
    ELSE t = Tok(IF S = <<"+">> THEN "UnaryPlus" ELSE "UnaryMinus")

\* The sign came out binary.
BinaryOutcome(t, S) == t = Tok(IF S = <<"+">> THEN "Plus" ELSE "Minus")

OperatorKinds ==
    {"Plus", "UnaryPlus", "Minus", "UnaryMinus", "Multiply", "Divide", "Modulo",
     "PowerOf", "LeftShift", "RightShift", "Pipe", "Ampersand", "XOr", "Bang",
     "Or", "And", "LessThan", "GreaterThan", "LessThanEqualsTo",
     "GreaterThanEqualsTo", "EqualsTo", "NotEqualsTo", "Equals", "PlusAssign",
     "MinusAssign", "MultiplyAssign", "DivideAssign", "ModuloAssign",
     "PowerOfAssign", "LeftShiftAssign", "RightShiftAssign", "AndAssign",
     "OrAssign", "XOrAssign"}

\* The tokens that cannot end an expression: opening symbols, operators, and
\* the keywords that start or continue a statement or clause.
CannotEndExpression ==
    {"LeftBrace", "LeftParen", "LeftBracket", "MapStart"} \cup OperatorKinds \cup
    {"If", "Else", "Switch", "Do", "While", "Until", "Loop", "For", "In", "Let",
     "Const", "Fn", "Private", "Import", "Export", "As", "Return", "Throw", "Try",
     "Catch"}

\* The tokens that end an expression: identifiers, literals, closing symbols.
EndsExpression ==
    {"Identifier", "IntegerConstant", "FloatConstant", "StringConstant",
     "CharConstant", "True", "False", "Null", "RightBrace", "RightParen",
     "RightBracket"}

\* The sign cases of the state, judged by which previous tokens make the
\* sign unary and which make it binary.
SignsFollow(unaryPrev, binaryPrev) ==
    \A A \in FixedLexemes \cup SampleLexemes \cup {<<>>}, S \in Signs, B \in SignTails :
        Input = SignCase(A, S, B) =>
            IF A = <<>>
            THEN Len(tokens) >= 1 => UnaryOutcome(tokens[1].tok, S, B)
            ELSE Len(tokens) >= 2 =>
                 /\ tokens[1].tok.kind \in unaryPrev => UnaryOutcome(tokens[2].tok, S, B)
                 /\ tokens[1].tok.kind \in binaryPrev => BinaryOutcome(tokens[2].tok, S)

\* C7 as stated: a `+` or `-` is unary at the start of the input and after any
\* token that cannot end an expression (opening symbol, operator, keyword),
\* and binary after a token that ends an expression.
C7_UnaryAfterNonEnding == SignsFollow(CannotEndExpression, EndsExpression)

\* The first token of the text alone.
FirstTokenOf(text) ==
    get_next_token(<<text>>, TokenizeState(0, FALSE, FALSE, FALSE),
                   Cursor(None, 1, 0, Position(1, 0)))

\* The text is one well-formed numeric literal: alone, it is one integer or
\* float token and nothing else.
IsNumericLiteral(text) ==
    /\ text # <<>>
    /\ is_numeric_digit(text[1])
    /\ LET r == FirstTokenOf(text) IN
        /\ ~r.panic
        /\ r.tok.kind \in {"IntegerConstant", "FloatConstant"}
        /\ Consumed(<<text>>, r.c) = Len(text)

\* C8: at the start of the input a `-` right before a well-formed numeric
\* literal (decimal integer, float, radix-prefixed integer) comes out as one
\* token, the literal's token with the value negated.
C8_MinusFoldsIntoLiteral ==
    Len(Input) >= 2 /\ Input[1] = "-" /\ IsNumericLiteral(Tail(Input)) /\ Len(tokens) >= 1 =>
        LET lit == FirstTokenOf(Tail(Input)).tok IN
        tokens[1].tok = TokNum(lit.kind, [m |-> -lit.val.m, e |-> lit.val.e])

\* The lexemes that extend a shorter operator lexeme, and their tokens.
LongerLexemes ==
    { << <<"*", "*">>, "PowerOf" >>, << <<"*", "*", "=">>, "PowerOfAssign" >>,
      << <<"*", "=">>, "MultiplyAssign" >>,
      << <<"<", "<">>, "LeftShift" >>, << <<"<", "<", "=">>, "LeftShiftAssign" >>,
      << <<"<", "=">>, "LessThanEqualsTo" >>,
      << <<">", ">">>, "RightShift" >>, << <<">", ">", "=">>, "RightShiftAssign" >>,
      << <<">", "=">>, "GreaterThanEqualsTo" >>,
      << <<"=", "=">>, "EqualsTo" >>, << <<"=", ">">>, "DoubleArrow" >>,
      << <<"!", "=">>, "NotEqualsTo" >>, << <<":", ":">>, "DoubleColon" >>,
      << <<"|", "|">>, "Or" >>, << <<"|", "=">>, "OrAssign" >>,
      << <<"&", "&">>, "And" >>, << <<"&", "=">>, "AndAssign" >>,
      << <<"+", "=">>, "PlusAssign" >>, << <<"-", "=">>, "MinusAssign" >>,
      << <<"/", "=">>, "DivideAssign" >>, << <<"%", "=">>, "ModuloAssign" >>,
      << <<"^", "=">>, "XOrAssign" >> }

\* C9: where one operator lexeme is a prefix of another, an input holding the
\* longer one yields the single token of the longer one: it is the first
\* token, it takes the whole lexeme, and alone it is followed by the end
\* marker.
C9_LongestOperatorWins ==
    \A l \in LongerLexemes :
        /\ Input = l[1] =>
              /\ Len(tokens) >= 1 => tokens[1].tok = Tok(l[2])
              /\ Len(tokens) >= 2 => tokens[2].tok = Tok("EOF")
        /\ \A B \in {<<"x">>, <<" ", "x">>} :
              Input = l[1] \o B =>
                  /\ Len(tokens) >= 1 => tokens[1].tok = Tok(l[2])
                  /\ Len(tokens) >= 2 =>
                        /\ tokens[2].tok = TokText("Identifier", <<"x">>)
                        /\ tokens[2].pos = Position(1, Len(l[1] \o B))

\* `**=` alone has come out as PowerOfAssign and then the end marker.
C9_Witness ==
    /\ Input = <<"*", "*", "=">>
    /\ Len(tokens) = 2
    /\ tokens[1].tok = Tok("PowerOfAssign")
    /\ tokens[2].tok = Tok("EOF")

\* The syntax text of each of the kinds comes back as that kind's token,
\* followed by the end marker.
RoundTrips(kinds) ==
    \A k \in kinds :
        Input = syntax(Tok(k)) =>
            /\ Len(tokens) >= 1 => tokens[1].tok = Tok(k)
            /\ Len(tokens) >= 2 => tokens[2].tok = Tok("EOF")

\* C10 as stated: the syntax text of every fixed operator, punctuation and
\* keyword token, tokenized alone, yields that token and then the end
\* marker.
C10_SyntaxRoundTrip == RoundTrips(FixedKinds)

\* The fixed tokens whose syntax text, alone, is read as another token: a
\* lone sign is unary.
SignKinds == {"Plus", "Minus"}

\* C10 amended: the syntax text of every fixed operator, punctuation and
\* keyword token other than the binary Plus and Minus, tokenized alone,
\* yields that token and then the end marker; `+` and `-` alone yield
\* UnaryPlus and UnaryMinus.
C10_SyntaxRoundTripButSigns ==
    /\ RoundTrips(FixedKinds \ SignKinds)
    /\ Input = <<"+">> /\ Len(tokens) >= 1 => tokens[1].tok = Tok("UnaryPlus")
    /\ Input = <<"-">> /\ Len(tokens) >= 1 => tokens[1].tok = Tok("UnaryMinus")

\* `while` alone has come out as the keyword and then the end marker.
C10_Witness ==
    /\ Input = <<"w", "h", "i", "l", "e">>
    /\ Len(tokens) = 2
    /\ tokens[1].tok = Tok("While")
    /\ tokens[2].tok = Tok("EOF")


Letters == Lower \cup Upper

\* s matches [A-Za-z_][A-Za-z0-9_]* and has a letter.
IsIdentifierShaped(s) ==
    /\ s # <<>>
    /\ s[1] \in Letters \cup {"_"}
    /\ \A i \in 1..Len(s) : s[i] \in Letters \cup Digit \cup {"_"}
    /\ \E i \in 1..Len(s) : s[i] \in Letters

\* The structural keywords: the fixed tokens whose syntax is a word.
KeywordKinds == {k \in FixedKinds : IsIdentifierShaped(syntax(Tok(k)))}

IsKeyword(s) == \E k \in KeywordKinds : syntax(Tok(k)) = s

KeywordOf(s) == Tok(CHOOSE k \in KeywordKinds : syntax(Tok(k)) = s)

\* The input is one word and the first pull has returned t, the second the
\* end marker.
YieldsAlone(t) ==
    /\ Len(tokens) >= 1 => tokens[1] = [tok |-> t, pos |-> Position(1, 1)]
    /\ Len(tokens) >= 2 => tokens[2].tok = Tok("EOF")

LetterBeforeDigit(s) ==
    \E i \in 1..Len(s) : s[i] \in Letters /\ \A j \in 1..(i - 1) : s[j] = "_"

IsReservedWord(s) == Str(s) \in ReservedWords \cup KeywordFunctions

KeywordTable ==
    { <<"null", "Null">>, <<"true", "True">>, <<"false", "False">>, <<"let", "Let">>,
      <<"const", "Const">>, <<"if", "If">>, <<"else", "Else">>, <<"switch", "Switch">>,
      <<"do", "Do">>, <<"while", "While">>, <<"until", "Until">>, <<"loop", "Loop">>,
      <<"for", "For">>, <<"in", "In">>, <<"continue", "Continue">>, <<"break", "Break">>,
      <<"return", "Return">>, <<"throw", "Throw">>, <<"try", "Try">>, <<"catch", "Catch">>,
      <<"fn", "Fn">>, <<"private", "Private">>, <<"import", "Import">>,
      <<"export", "Export">>, <<"as", "As">> }

\* The tokens returned so far, without their positions.
TokensOnly == [i \in 1..Len(tokens) |-> tokens[i].tok]

IsPrefix(s, t) == Len(s) <= Len(t) /\ s = SubSeq(t, 1, Len(s))

\* C12: the keyword table is consulted before the identifier is validated:
\* each keyword text alone yields its keyword token, `let x = null; x` has
\* `null` as the Null token, a lone `_` yields Underscore, and two or more
\* underscores yield LexError(MalformedIdentifier) and nothing else.
C12_KeywordLookupFirst ==
    /\ \A kw \in KeywordTable : Str(Input) = kw[1] => YieldsAlone(Tok(kw[2]))
    /\ Input = UnitTestScript =>
           IsPrefix(TokensOnly,
                    << Tok("Let"), TokText("Identifier", <<"x">>), Tok("Equals"),
                       Tok("Null"), Tok("SemiColon"), TokText("Identifier", <<"x">>),
                       Tok("EOF") >>)
           \/ (Len(tokens) > 7 /\ tokens[7].tok = Tok("EOF") /\ tokens[4].tok = Tok("Null"))
    /\ Input = <<"_">> => YieldsAlone(Tok("Underscore"))
    /\ (Len(Input) >= 2 /\ \A i \in 1..Len(Input) : Input[i] = "_") =>
           YieldsAlone(TokErr("MalformedIdentifier", Input, 0))

\* The statement of the unit test has been lexed to its end.
C12_Witness ==
    /\ Input = UnitTestScript
    /\ Len(tokens) = 7
    /\ tokens[4] = [tok |-> Tok("Null"), pos |-> Position(1, 9)]
    /\ tokens[7].tok = Tok("EOF")

\* The escapes and the character each stands for, q being the enclosing
\* quote.
Decoded(q) ==
    { << <<"\\", "\\">>, "\\" >>, << <<"\\", "t">>, "\t" >>, << <<"\\", "n">>, "\n" >>,
      << <<"\\", "r">>, "\r" >>, << <<"\\", q>>, q >>,
      << <<"\\", "x", "4", "1">>, "A" >>, << <<"\\", "u", "0", "0", "4", "1">>, "A" >>,
      << <<"\\", "U", "0", "0", "0", "0", "0", "0", "4", "1">>, "A" >>,
      << <<"\\", "u", "0", "0", "e", "9">>, "U+233" >> }

\* The characters that stand for themselves inside a literal enclosed in q.
PlainChars(q) == {"a"} \cup (Quotes \ {q})

\* The pieces that decode to one character, with that character.
GoodPieces(q) == Decoded(q) \cup { << <<ch>>, ch >> : ch \in PlainChars(q) }

\* The first pull has returned the token t at the opening quote.
FirstAtQuote(t) ==
    Len(tokens) >= 1 => tokens[1] = [tok |-> t, pos |-> Position(1, 1)]

\* C13: a raw newline inside a string or character literal yields
\* LexError(UnterminatedString) at the opening quote, whatever precedes it in
\* the literal: nothing, a character, an escape, a backslash.
C13_NewlineIsUnterminated ==
    \A q \in Quotes :
    \A before \in {p[1] : p \in GoodPieces(q)} \cup {<<>>, <<"\\">>} :
        StartsWith(Input, <<q>> \o before \o <<"\n">>) =>
            FirstAtQuote(TokErr("UnterminatedString", <<>>, 0))

\* The index of the first double quote of the input, 0 when it has none.
FirstQuote == IndexOf(Input, {"\""})

\* The input up to its first double quote holds only names, numbers, points
\* and newlines, so that quote opens a string literal.
QuoteOpensString ==
    /\ FirstQuote > 0
    /\ \A i \in 1..(FirstQuote - 1) : Input[i] \in {"a", "1", ".", "\n"}

\* What follows the opening quote, and the index in it of the first closing
\* quote or newline (0: neither).
AfterQuote == SubSeq(Input, FirstQuote + 1, Len(Input))

StringStop == IndexOf(AfterQuote, {"\"", "\n"})

\* Line and column of the i-th character of the input.
PositionOf(i) ==
    LET before == SubSeq(Input, 1, i - 1) IN
    Position(1 + CountOf(before, "\n"), i - LastIndexOf(before, "\n"))

HasToken(t, p) == \E k \in 1..Len(tokens) : tokens[k] = [tok |-> t, pos |-> p]

\* C14: a string literal that the end of the input leaves open yields
\* LexError(UnterminatedString) at its opening quote, and one that is closed
\* yields the StringConstant of its content at its opening quote.
C14_StringAtOpeningQuote ==
    QuoteOpensString =>
        /\ (StringStop = 0 /\ Len(ConsumedText) = Len(Input)) =>
               HasToken(TokErr("UnterminatedString", <<>>, 0), PositionOf(FirstQuote))
        /\ (StringStop > 0 /\ AfterQuote[StringStop] = "\""
              /\ Len(ConsumedText) >= FirstQuote + StringStop) =>
               HasToken(TokText("StringConstant", SubSeq(AfterQuote, 1, StringStop - 1)),
                        PositionOf(FirstQuote))

\* A string opened on the second line and left open has been reported there.
C14_Witness ==
    /\ Input = <<"a", "\n", "\"", "a">>
    /\ Len(tokens) = 2
    /\ tokens[2] = [tok |-> TokErr("UnterminatedString", <<>>, 0), pos |-> Position(2, 1)]

\* The number of pieces that are not empty: the decoded length of a literal
\* made of SizedPieces.
PiecesLen(P1, P2, P3) ==
    (IF P1 = <<>> THEN 0 ELSE 1) + (IF P2 = <<>> THEN 0 ELSE 1)
        + (IF P3 = <<>> THEN 0 ELSE 1)

IsTooLong(t, n) == t = TokErr("StringTooLong", <<>>, n)

\* C15: with max_string_size = N a closed literal of more than N decoded
\* characters yields LexError(StringTooLong(N)), one of at most N characters
\* is not rejected for its length, and without a maximum none is.
C15_MaxStringSizeCountsCharacters ==
    \A q \in Quotes :
    \A P1 \in SizedPieces \cup {<<>>}, P2 \in SizedPieces \cup {<<>>},
       P3 \in SizedPieces \cup {<<>>} :
        (Input = <<q>> \o P1 \o P2 \o P3 \o <<q>> /\ Len(tokens) >= 1) =>
            LET N == state.max_string_size
                L == PiecesLen(P1, P2, P3)
                t == tokens[1].tok
            IN /\ (N # 0 /\ L > N) => IsTooLong(t, N)
               /\ (N # 0 /\ L <= N) => t.err # "StringTooLong"
               /\ N = 0 => t.err # "StringTooLong"

\* C16: a closed string literal of plain characters and escapes yields the
\* StringConstant of the characters they decode to: the escapes by the
\* table, every other character itself.
C16_EscapesDecode ==
    \A p1 \in GoodPieces("\"") \cup {<< <<>>, <<>> >>},
       p2 \in GoodPieces("\"") \cup {<< <<>>, <<>> >>} :
        Input = <<"\"">> \o p1[1] \o p2[1] \o <<"\"">> =>
            LET Char(p) == IF p[1] = <<>> THEN <<>> ELSE <<p[2]>>
            IN FirstAtQuote(TokText("StringConstant", Char(p1) \o Char(p2)))

\* A tab escape and a four-digit escape have been decoded.
C16_Witness ==
    /\ Input = <<"\"", "\\", "t", "\\", "u", "0", "0", "e", "9", "\"">>
    /\ Len(tokens) >= 1
    /\ tokens[1].tok = TokText("StringConstant", <<"\t", "U+233">>)

\* The malformed escapes of a literal enclosed in q, each with the text its
\* error carries: the sequence up to and including the character that
\* spoils it.
BadEscapes(q) ==
    { << <<"\\", "q">>, <<"\\", "q">> >>,
      << <<"\\", "\n">>, <<"\\", "\n">> >>,
      << <<"\\", "x", "g", "1">>, <<"\\", "x", "g">> >>,
      << <<"\\", "x", "4", q>>, <<"\\", "x", "4", q>> >>,
      << <<"\\", "u", "D", "8", "0", "0">>, <<"\\", "u", "D", "8", "0", "0">> >>,
      << <<"\\", "U", "0", "0", "1", "1", "0", "0", "0", "0">>,
         <<"\\", "U", "0", "0", "1", "1", "0", "0", "0", "0">> >> }
    \cup { << <<"\\", o>>, <<"\\", o>> >> : o \in Quotes \ {q} }

\* The escapes that the end of the input cuts short.
CutEscapes == { <<"\\", "x", "4">> }

FirstTokenIs(t) == Len(tokens) >= 1 => tokens[1].tok = t

\* C17: a backslash before a character that starts no escape, and a \x, \u
\* or \U escape with a non-hex digit, with too few digits before the input
\* ends, or with a value that is no code point, yield
\* LexError(MalformedEscapeSequence) carrying the sequence read so far.
C17_MalformedEscapeCarriesSequence ==
    \A q \in Quotes :
    \A before \in {p[1] : p \in GoodPieces(q)} \cup {<<>>} :
        /\ \A bad \in BadEscapes(q) :
               StartsWith(Input, <<q>> \o before \o bad[1]) =>
                   FirstTokenIs(TokErr("MalformedEscapeSequence", bad[2], 0))
        /\ \A cut \in CutEscapes :
               Input = <<q>> \o before \o cut =>
                   FirstTokenIs(TokErr("MalformedEscapeSequence", cut, 0))

\* An escape with a wrong digit after a plain character has been reported.
C17_Witness ==
    /\ Input = <<"\"", "a", "\\", "x", "g", "1", "\"">>
    /\ Len(tokens) >= 1
    /\ tokens[1].tok = TokErr("MalformedEscapeSequence", <<"\\", "x", "g">>, 0)

\* C18: a closed character literal whose content decodes to exactly one
\* character yields the CharConstant of that character, one whose content
\* decodes to none or to more than one yields LexError(MalformedChar), both
\* at the opening quote.
C18_CharLiteral ==
    \A p1 \in GoodPieces("'") \cup {<< <<>>, <<>> >>},
       p2 \in GoodPieces("'") \cup {<< <<>>, <<>> >>} :
        Input = <<"'">> \o p1[1] \o p2[1] \o <<"'">> =>
            LET Char(p) == IF p[1] = <<>> THEN <<>> ELSE <<p[2]>>
                content == Char(p1) \o Char(p2)
            IN IF Len(content) = 1
               THEN FirstAtQuote(TokText("CharConstant", content))
               ELSE FirstAtQuote(TokErr("MalformedChar", content, 0))

\* A character literal of two characters has been reported as malformed.
C18_Witness ==
    /\ Input = <<"'", "a", "\\", "t", "'">>
    /\ Len(tokens) >= 1
    /\ tokens[1] = [tok |-> TokErr("MalformedChar", <<"a", "\t">>, 0), pos |-> Position(1, 1)]

\* The value of a text of digits read in a radix, most significant first.
RECURSIVE RadixValue(_, _)
RadixValue(s, radix) ==
    IF s = <<>> THEN 0
    ELSE RadixValue(SubSeq(s, 1, Len(s) - 1), radix) * radix + ToDigit16(s[Len(s)])

WithoutSeparators(s) == SelectSeq(s, LAMBDA ch : ch # "_")

\* The text holds digits of the radix and separators only, and a digit.
IsDigitsOf(s, radix) ==
    /\ \A i \in 1..Len(s) : s[i] = "_" \/ (is_hex_digit(s[i]) /\ ToDigit16(s[i]) < radix)
    /\ WithoutSeparators(s) # <<>>

RadixOf(prefix) ==
    IF prefix[2] \in {"x", "X"} THEN 16 ELSE IF prefix[2] \in {"o", "O"} THEN 8 ELSE 2

IntegerOf(v) == TokNum("IntegerConstant", [m |-> v, e |-> 0])

\* C19: a radix prefix followed by digits of the radix and separators yields,
\* alone, the IntegerConstant of the digits read in that radix without the
\* separators, and a decimal literal of digits and separators the
\* IntegerConstant of its digits.
C19_RadixAndSeparators ==
    /\ \A prefix \in RadixPrefixes :
           LET body == SubSeq(Input, 3, Len(Input)) IN
           (StartsWith(Input, prefix) /\ IsDigitsOf(body, RadixOf(prefix))) =>
               YieldsAlone(IntegerOf(RadixValue(WithoutSeparators(body), RadixOf(prefix))))
    /\ (Input # <<>> /\ Input[1] \in Digit /\ IsDigitsOf(Input, 10)) =>
           YieldsAlone(IntegerOf(RadixValue(WithoutSeparators(Input), 10)))

\* 0X1_A has been read as 26, alone.
C19_Witness ==
    /\ Input = <<"0", "X", "1", "_", "A">>
    /\ Len(tokens) = 2
    /\ tokens[1].tok = IntegerOf(26)
    /\ tokens[2].tok = Tok("EOF")

\* The text after an exponent marker starts with a digit, or with a sign and
\* a digit.
IsExponent(tail) ==
    \/ Len(tail) >= 1 /\ tail[1] \in Digit
    \/ Len(tail) >= 2 /\ tail[1] \in {"+", "-"} /\ tail[2] \in Digit

NumericKinds == {"IntegerConstant", "FloatConstant"}

\* C20: after the first pull of a decimal literal followed by an exponent
\* marker, e or E, the marker has been consumed into one numeric token when a
\* digit, or a sign and a digit, follows it; otherwise the literal's token
\* ends before the marker.
C20_ExponentMarker ==
    \A mant \in Mantissas, marker \in ExponentMarkers :
        LET tail == SubSeq(Input, Len(mant) + 2, Len(Input)) IN
        (StartsWith(Input, mant \o <<marker>>) /\ Len(tokens) = 1) =>
            /\ tokens[1].tok.kind \in NumericKinds
            /\ IF IsExponent(tail)
               THEN Len(ConsumedText) > Len(mant) + 1
               ELSE Len(ConsumedText) = Len(mant)

InU16(n) == n \in 0..U16Max

\* C21: after any call of advance or new_line on a position that is not
\* none, the call has not failed, line and column are within 0..65535, the
\* line has not decreased, and a call at the maximum (advance at column
\* 65535, new_line at line 65535) has left the position as it was.
C21_AdvanceAndNewLineSaturate ==
    (call.op \in {"advance", "new_line"} /\ ~is_none(call.before)) =>
        /\ ~panicked
        /\ InU16(pos.line) /\ InU16(pos.pos)
        /\ pos.line >= call.before.line
        /\ (call.op = "advance" /\ call.before.pos = U16Max) => pos = call.before
        /\ (call.op = "new_line" /\ call.before.line = U16Max) => pos = call.before

\* advance has been called at column 65535.
C21_Witness ==
    /\ call.op = "advance"
    /\ call.before = Position(2, U16Max)
    /\ pos = Position(2, U16Max)

\* C22: after new_line on a position that is not none, whatever its line,
\* the position is at beginning of line.
C22_NewLineResetsColumn ==
    (call.op = "new_line" /\ ~is_none(call.before)) =>
        ~panicked /\ is_beginning_of_line(pos)

\* The column of a + b by the splice rule, in the integers.
SpliceColumn(a, b) == IF is_beginning_of_line(b) THEN a.pos ELSE a.pos + b.pos - 1

\* C23: for a position a and a position b that is not none, a + b succeeds
\* and has line a.line + b.line - 1 and column a.column when b is at
\* beginning of line, else a.column + b.column - 1.
C23_AddSplices ==
    (call.op = "add" /\ ~is_none(call.rhs)) =>
        /\ ~panicked
        /\ pos.line = call.before.line + call.rhs.line - 1
        /\ pos.pos = SpliceColumn(call.before, call.rhs)

Clamp(n) == IF n > U16Max THEN U16Max ELSE IF n < 0 THEN 0 ELSE n

\* C24: a + b never fails and never wraps around: each component is the
\* splice rule's value clamped to 0..65535.
C24_AddSaturates ==
    call.op = "add" =>
        /\ ~panicked
        /\ InU16(pos.line) /\ InU16(pos.pos)
        /\ is_none(call.rhs) => pos = call.before
        /\ ~is_none(call.rhs) =>
               /\ pos.line = Clamp(call.before.line + call.rhs.line - 1)
               /\ pos.pos = Clamp(SpliceColumn(call.before, call.rhs))

\* The results of k pulls on the sources ss from the state st and the cursor
\* c, and whether a pull panicked on the way.
RECURSIVE RunPulls(_, _, _, _, _)
RunPulls(ss, st, c, k, acc) ==
    IF k = 0 THEN [tokens |-> acc, panicked |-> FALSE]
    ELSE With(get_next_token(ss, st, c), LAMBDA r :
         IF r.panic THEN [tokens |-> acc, panicked |-> TRUE]
         ELSE RunPulls(ss, r.state, r.c, k - 1, Append(acc, [tok |-> r.tok, pos |-> r.tpos])))

\* The same pulls on the whole input as one source.
AsOneSource ==
    RunPulls(<<Input>>, [state EXCEPT !.non_unary = FALSE, !.comment_level = 0],
             Cursor(None, 1, 0, Position(1, 0)),
             Len(tokens) + (IF panicked THEN 1 ELSE 0), <<>>)

\* C25: the pulls on a list of sources have returned the (token, position)
\* pairs that the same number of pulls return on the concatenation of the
\* sources as one source.
C25_SourcesAreConcatenated ==
    /\ tokens = AsOneSource.tokens
    /\ panicked = AsOneSource.panicked

\* `1`, an empty source and `2` have given the one token 12.
C25_Witness ==
    /\ streams = << <<"1">>, <<>>, <<"2">> >>
    /\ Len(tokens) = 2
    /\ tokens[1] = [tok |-> TokNum("IntegerConstant", [m |-> 12, e |-> 0]), pos |-> Position(1, 1)]
    /\ tokens[2].tok = Tok("EOF")

\* The symbols of other languages that the iterator answers with a
\* suggestion.
ForeignSymbols ==
    { <<"=", "=", "=">>, <<"!", "=", "=">>, <<"-", ">">>, <<"<", "-">>, <<":", "=">>,
      <<":", ":", "<">>, <<"(", "*">>, <<"*", ")">>, <<"#">> }

IsImproperSymbol(t, s) == t.kind = "LexError" /\ t.err = "ImproperSymbol" /\ t.text = s

\* The messages that suggest something, and the generic one.
Suggestions == 1..8
GenericMessage == MessageOf("'{}' is a reserved symbol")

\* The last call of next has returned a token for a raw Reserved token.
AfterReserved == call.op = "next" /\ call.raw.kind = "Reserved"

\* C26: for a raw Reserved(s) the iterator emits Custom(s) when s is a custom
\* keyword; else ImproperSymbol with s and a suggestion when s is a foreign
\* symbol; else the generic ImproperSymbol when s is not identifier-shaped;
\* else an ImproperSymbol when s is disabled.
C26_ReservedCascade ==
    AfterReserved =>
        LET s == call.raw.text
            out == LastToken.tok
        IN /\ ~panicked
           /\ IF s \in engine.custom_keywords THEN out = TokText("Custom", s)
              ELSE IF s \in ForeignSymbols
              THEN IsImproperSymbol(out, s) /\ out.val.m \in Suggestions
              ELSE IF ~IsIdentifierShaped(s)
              THEN IsImproperSymbol(out, s) /\ out.val.m = GenericMessage
              ELSE IF s \in engine.disabled_symbols THEN IsImproperSymbol(out, s)
              ELSE TRUE

\* `===` registered as a custom keyword has come out as Custom.
C26_Witness ==
    /\ AfterReserved
    /\ call.raw.text = <<"=", "=", "=">>
    /\ engine.custom_keywords = {<<"=", "=", "=">>}
    /\ LastToken.tok = TokText("Custom", <<"=", "=", "=">>)

\* C27: a raw Reserved(s) with s identifier-shaped, not a custom keyword and
\* not disabled, is emitted as the same Reserved(s).
C27_ReservedWordPassesThrough ==
    (AfterReserved /\ IsIdentifierShaped(call.raw.text)
       /\ call.raw.text \notin engine.custom_keywords
       /\ call.raw.text \notin engine.disabled_symbols) =>
        ~panicked /\ LastToken.tok = call.raw

\* The results of k calls of next on the sources ss by an iterator of the
\* engine eng, the raw tokens behind them, and whether a call panicked.
RECURSIVE RunNext(_, _, _, _, _, _)
RunNext(eng, ss, st, c, k, acc) ==
    IF k = 0 THEN acc
    ELSE With(get_next_token(ss, st, c), LAMBDA r :
         IF r.panic THEN [acc EXCEPT !.panicked = TRUE]
         ELSE With(next_token(eng, r.tok), LAMBDA n :
              IF n.panic THEN [acc EXCEPT !.panicked = TRUE]
              ELSE RunNext(eng, ss, r.state, r.c, k - 1,
                           [acc EXCEPT !.tokens = Append(@, [tok |-> n.tok, pos |-> r.tpos]),
                                       !.raws = Append(@, r.tok)])))

\* The same calls of next by an engine without the custom keywords.
Unregistered ==
    RunNext([engine EXCEPT !.custom_keywords = {}], streams,
            TokenizeState(0, FALSE, FALSE, FALSE), Cursor(None, 1, 0, Position(1, 0)),
            Len(tokens) + (IF panicked THEN 1 ELSE 0),
            [tokens |-> <<>>, raws |-> <<>>, panicked |-> FALSE])

\* The texts that are the syntax of a standard keyword or operator.
StandardTexts == FixedLexemes

\* C28: with one text registered as a custom keyword, a text that is no
\* standard keyword or operator, the calls of next return what they return
\* without the registration, but Custom(text) at the same position where the
\* raw token is the Reserved or the Identifier of that text.
C28_CustomKeywordFrame ==
    \A k \in CustomTexts \ StandardTexts :
        engine.custom_keywords = {k} =>
            With(Unregistered, LAMBDA ref :
                /\ panicked = ref.panicked
                /\ Len(tokens) = Len(ref.tokens)
                /\ \A i \in 1..Len(tokens) :
                       IF ref.raws[i] \in {TokText("Reserved", k), TokText("Identifier", k)}
                       THEN tokens[i] = [tok |-> TokText("Custom", k), pos |-> ref.tokens[i].pos]
                       ELSE tokens[i] = ref.tokens[i])

\* The standard keywords and operators: the variants with a fixed syntax.
StandardKinds == FixedKinds \cup {"UnaryPlus", "UnaryMinus"}

\* What one call of next does for a raw standard keyword or operator.
StandardTokenStep ==
    (call'.op = "next" /\ call'.raw.kind \in StandardKinds) =>
        LET raw == call'.raw
            t == syntax(raw)
            Emits(tok) == /\ ~panicked'
                          /\ Len(tokens') = Len(tokens) + 1
                          /\ tokens'[Len(tokens')].tok = tok
        IN IF t \in engine.disabled_symbols
           THEN IF t \in engine.custom_keywords THEN Emits(TokText("Custom", t))
                ELSE Emits(TokText("Reserved", t))
           ELSE IF t \in engine.custom_keywords THEN panicked' /\ tokens' = tokens
           ELSE Emits(raw)

\* C29: for a raw standard keyword or operator with syntax t, next emits
\* Custom(t) when t is disabled and a custom keyword, Reserved(t) when t is
\* disabled only, panics and returns nothing when t is a custom keyword that
\* is not disabled, and passes the token through otherwise.
C29_StandardTokenCascade == [][StandardTokenStep]_vars

\* The active keyword `let`, registered as a custom keyword, has made next
\* panic.
C29_Witness ==
    /\ call.op = "next"
    /\ call.raw = Tok("Let")
    /\ engine = [disabled_symbols |-> {}, custom_keywords |-> {<<"l", "e", "t">>}]
    /\ panicked
    /\ tokens = <<>>

\* What one call of get_next_token does to non_unary.
NonUnaryStep ==
    Len(tokens') = Len(tokens) + 1 =>
        LET t == tokens'[Len(tokens')].tok IN
        IF t = NoToken THEN state'.non_unary = state.non_unary
        ELSE state'.non_unary = ~is_next_unary(t)

\* C30: before the first token non_unary is false, so a sign that starts the
\* input is not binary; a call that returns a token t leaves non_unary the
\* negation of t.is_next_unary(), and a call that returns None leaves it as
\* it was.
C30_NonUnaryFollowsLastToken ==
    /\ [](tokens = <<>> => ~state.non_unary)
    /\ []((Len(tokens) >= 1 /\ Input[1] \in {"+", "-"}) => tokens[1].tok.kind \notin {"Plus", "Minus"})
    /\ [][NonUnaryStep]_vars

\* After `-x` the sign was unary, x has set non_unary, and the None that
\* ends the input has left it set.
C30_Witness ==
    /\ Input = <<"-", "x">>
    /\ Len(tokens) = 3
    /\ tokens[1].tok = Tok("UnaryMinus")
    /\ tokens[2].tok = TokText("Identifier", <<"x">>)
    /\ tokens[3].tok = NoToken
    /\ state.non_unary

\* The last index of the run of digits of the radix and separators that
\* starts at s[i]; i - 1 when s[i] is neither.
DigitRun(s, i, radix) ==
    LET ok(j) == s[j] = "_" \/ (is_hex_digit(s[j]) /\ ToDigit16(s[j]) < radix) IN
    CHOOSE n \in (i - 1)..Len(s) :
        /\ \A j \in i..n : ok(j)
        /\ n < Len(s) => ~ok(n + 1)

HasRadixPrefix(s) ==
    Len(s) >= 2 /\ s[1] = "0" /\ s[2] \in {"x", "X", "o", "O", "b", "B"}

\* Where a numeric literal at the head of s ends: after the prefix, if there
\* is one, and the digits of its radix and separators that follow.
LiteralEnd(s) ==
    IF HasRadixPrefix(s) THEN DigitRun(s, 3, RadixOf(s)) ELSE DigitRun(s, 2, 10)

\* The character after the literal is a point or an exponent marker, which
\* have rules of their own.
FloatFollows(s) == LiteralEnd(s) < Len(s) /\ s[LiteralEnd(s) + 1] \in {".", "e"}

\* C31: the pull of a numeric literal consumes the radix prefix, if the
\* literal starts with one, and then the digits of the current radix and the
\* separators, and stops before the first character that is neither; a
\* prefix letter anywhere else ends the literal.
C31_DigitsOfTheRadix ==
    (Input # <<>> /\ Input[1] \in Digit /\ Len(tokens) = 1 /\ ~FloatFollows(Input)) =>
        Len(ConsumedText) = LiteralEnd(Input)

\* The input starts with a numeric literal: a digit, or a minus sign and a
\* digit (at the start of the input a minus before a digit is folded).
StartsNumber ==
    \/ Len(Input) >= 1 /\ Input[1] \in Digit
    \/ Len(Input) >= 2 /\ Input[1] = "-" /\ Input[2] \in Digit

\* What follows the point at Input[i] lets a literal take it: a digit, or
\* anything, the end of the input included, but a letter, `_` and `.`.
PointTaken(i) ==
    \/ i = Len(Input)
    \/ Input[i + 1] \in Digit
    \/ ~(Input[i + 1] \in Lower \cup Upper \cup {"_", "."})

\* The token of the point that a literal left behind at Input[i].
PointToken(i) ==
    IF i + 2 <= Len(Input) /\ Input[i + 1] = "." /\ Input[i + 2] = "."
    THEN TokText("Reserved", <<".", ".", ".">>)
    ELSE IF i + 1 <= Len(Input) /\ Input[i + 1] = "." THEN TokText("Reserved", <<".", ".">>)
    ELSE Tok("Period")

\* C32: the pull of a numeric literal takes a point only when a digit
\* follows it or what follows is none of a letter, `_` and `.`, and it stops
\* before a point only when one of those follows; digits and a point that
\* nothing or a symbol follows are the float of the digits; and a point left
\* behind by the integer before it is the first character of the next token,
\* Period or the `..` or `...` symbol, at the point's column.
C32_PointInNumber ==
    /\ (StartsNumber /\ Len(tokens) = 1) =>
           \A i \in 1..Len(Input) :
               Input[i] = "." =>
                   /\ i <= Len(ConsumedText) => PointTaken(i)
                   /\ i = Len(ConsumedText) + 1 => ~PointTaken(i)
    /\ \A i \in 2..Len(Input) :
           (Input[i] = "." /\ AllDigits(SubSeq(Input, 1, i - 1)) /\ Len(tokens) >= 1) =>
               /\ (PointTaken(i) /\ (i = Len(Input) \/ Input[i + 1] \notin Digit)) =>
                      tokens[1].tok = TokNum("FloatConstant",
                                             Normalise(RadixValue(SubSeq(Input, 1, i - 1), 10), 0))
               /\ ~PointTaken(i) =>
                      /\ tokens[1] = [tok |-> IntegerOf(RadixValue(SubSeq(Input, 1, i - 1), 10)),
                                      pos |-> Position(1, 1)]
                      /\ Len(tokens) >= 2 =>
                             tokens[2] = [tok |-> PointToken(i), pos |-> Position(1, i)]

\* 1.x has been read as the integer 1, a Period and the identifier x.
C32_Witness ==
    /\ Input = <<"1", ".", "x">>
    /\ Len(tokens) = 3
    /\ tokens[1].tok = IntegerOf(1)
    /\ tokens[2].tok = Tok("Period")
    /\ tokens[3].tok = TokText("Identifier", <<"x">>)

\* The stream as the tokenizer holds it between two pulls.
Stream == Cursor(buf, index, off, pos)

\* C33: buf holds nothing or one character; the next pull calls unget only
\* when buf is empty; and a pushed-back character is the next character of
\* the input, the one peek_next and get_next return, and get_next takes it
\* and nothing else.
C33_SinglePushback ==
    /\ buf = None \/ \E i \in 1..Len(Input) : buf = Input[i]
    /\ ~panicked => ~get_next_token(streams, state, Stream).c.lost
    /\ buf # None =>
           /\ buf = Input[Len(ConsumedText) + 1]
           /\ peek_next(streams, Stream).ch = buf
           /\ peek_next(streams, Stream).c = Stream
           /\ get_next(streams, Stream).ch = buf
           /\ Consumed(streams, get_next(streams, Stream).c) = Len(ConsumedText) + 1

\* The pull of 1 in 1.x has pushed the point back.
C33_Witness ==
    /\ Input = <<"1", ".", "x">>
    /\ Len(tokens) = 1
    /\ buf = "."

\* The tokens of the pulls up to the first EOF token, at most k pulls; a
\* panic ends the run.
RECURSIVE RunToEnd(_, _, _, _, _)
RunToEnd(ss, st, c, k, acc) ==
    IF k = 0 THEN acc
    ELSE With(get_next_token(ss, st, c), LAMBDA r :
         IF r.panic THEN Append(acc, Tok("panic"))
         ELSE IF r.tok.kind = "EOF" THEN Append(acc, r.tok)
         ELSE RunToEnd(ss, r.state, r.c, k - 1, Append(acc, r.tok)))

\* The run on the input from the start with the flags inc and ddc.
RunWith(inc, ddc) ==
    RunToEnd(streams, TokenizeState(state.max_string_size, state.end_with_none, inc, ddc),
             Cursor(None, 1, 0, Position(1, 0)), TotalLen + 1, <<>>)

NonComments(toks) == SelectSeq(toks, LAMBDA t : t.kind # "Comment")

\* The tokens returned so far, without their positions.
TokensSoFar == [i \in 1..Len(tokens) |-> tokens[i].tok]

\* The last pull has returned the first EOF token.
AtFirstEOF ==
    /\ Len(tokens) >= 1
    /\ LastToken.tok.kind = "EOF"
    /\ \A i \in 1..(Len(tokens) - 1) : tokens[i].tok.kind # "EOF"

\* C34: when a run has reached the end of the input, its tokens without the
\* Comment tokens are the tokens without the Comment tokens of the run on the
\* same input under every other choice of include_comments and
\* disable_doc_comments.
C34_CommentsDoNotChangeTokens ==
    AtFirstEOF =>
        \A inc \in BOOLEAN, ddc \in BOOLEAN :
            NonComments(TokensSoFar) = NonComments(RunWith(inc, ddc))

\* The index of the first character at or after Input[i] that is not
\* whitespace; Len(Input) + 1 when there is none.
SkipStart(i) ==
    CHOOSE j \in i..(Len(Input) + 1) :
        /\ \A k \in i..(j - 1) : is_whitespace(Input[k])
        /\ j <= Len(Input) => ~is_whitespace(Input[j])

HasLexeme(t) == t.kind \notin {"LexError", "EOF", "None"}

\* What one pull reports with a token that has a lexeme: the line and column
\* of the first character after the consumed input that is not whitespace.
LexemeStep ==
    Len(tokens') = Len(tokens) + 1 =>
        LET t == tokens'[Len(tokens')] IN
        HasLexeme(t.tok) => t.pos = PositionOf(SkipStart(Len(ConsumedText) + 1))

\* C35: the first token of an input that does not start with whitespace is
\* reported at line 1, column 1, and every token that is not an error is
\* reported at the first character of its lexeme, a folded minus sign
\* included.
C35_TokenAtFirstCharacter ==
    /\ []((Len(tokens) >= 1 /\ HasLexeme(tokens[1].tok) /\ ~is_whitespace(Input[1])) =>
              tokens[1].pos = Position(1, 1))
    /\ [][LexemeStep]_vars

\* Position p is not after position q.
NotAfter(p, q) == p.line < q.line \/ (p.line = q.line /\ p.pos <= q.pos)

\* C36: the positions returned with successive tokens never go backwards:
\* each one, that of an error token or of the EOF token included, is at or
\* after the one returned before it.
C36_PositionsNeverGoBack ==
    \A i \in 1..(Len(tokens) - 1) :
        (tokens[i].tok # NoToken /\ tokens[i + 1].tok # NoToken) =>
            NotAfter(tokens[i].pos, tokens[i + 1].pos)

\* In a"<newline>1 the string that the newline ends has been reported at its
\* quote and the 1 after it, past the rewind, further on.
C36_Witness ==
    /\ Input = <<"a", "\"", "\n", "1">>
    /\ Len(tokens) = 3
    /\ tokens[2] = [tok |-> TokErr("UnterminatedString", <<>>, 0), pos |-> Position(1, 2)]
    /\ tokens[3].tok = IntegerOf(1)
    /\ NotAfter(tokens[2].pos, tokens[3].pos)

EmptyCharLiteral == <<"'", "'">>

\* C37: on an input that starts with the empty character literal, the first
\* pull returns LexError(MalformedChar) of the empty text and consumes both
\* quotes, and the second pull returns the first token of what follows the
\* literal.
C37_EmptyCharConsumedWhole ==
    (StartsWith(Input, EmptyCharLiteral) /\ Len(tokens) >= 1) =>
        /\ tokens[1].tok = TokErr("MalformedChar", <<>>, 0)
        /\ Len(tokens) = 1 => ConsumedText = EmptyCharLiteral
        /\ Len(tokens) >= 2 => tokens[2].tok = FirstTokenOf(SubSeq(Input, 3, Len(Input))).tok

LiteralKinds == {"StringConstant", "CharConstant", "IntegerConstant", "FloatConstant"}

\* C38: a call of next whose raw token is a string, character or numeric
\* constant does not panic and delivers that token as it is, whatever the
\* custom keywords and disabled symbols of the engine.
C38_LiteralsPassThrough ==
    (call.op = "next" /\ call.raw.kind \in LiteralKinds) =>
        /\ ~panicked
        /\ Len(tokens) >= 1
        /\ LastToken.tok = call.raw

\* The last call of next has delivered a token.
Delivered ==
    call.op = "next" /\ ~panicked /\ Len(tokens) >= 1 /\ LastToken.tok # NoToken

\* C39: after next has delivered the token t, non_unary, the flag that makes
\* the next sign binary, is the negation of t.is_next_unary(), also when t
\* is not the raw token that get_next_token returned.
C39_FlagFollowsDeliveredToken ==
    Delivered => state.non_unary = ~is_next_unary(LastToken.tok)

\* The text starts with three slashes and no fourth, or with a slash and two
\* stars and no third.
IsDocText(t) ==
    \/ Len(t) >= 3 /\ SubSeq(t, 1, 3) = <<"/", "/", "/">> /\ (Len(t) >= 4 => t[4] # "/")
    \/ Len(t) >= 3 /\ SubSeq(t, 1, 3) = <<"/", "*", "*">> /\ (Len(t) >= 4 => t[4] # "*")

\* C40: with include_comments clear, every Comment token returned carries the
\* text of a doc-comment, and with disable_doc_comments set as well no
\* Comment token is returned.
C40_OnlyDocCommentsWithoutInclude ==
    ~state.include_comments =>
        \A i \in 1..Len(tokens) :
            tokens[i].tok.kind = "Comment" =>
                /\ IsDocText(tokens[i].tok.text)
                /\ is_doc_comment(tokens[i].tok.text)
                /\ ~state.disable_doc_comments

\* With both flags clear, ///a has been returned as a Comment token.
C40_Witness ==
    /\ Input = <<"/", "/", "/", "a">>
    /\ ~state.include_comments
    /\ ~state.disable_doc_comments
    /\ Len(tokens) >= 1
    /\ tokens[1].tok = TokText("Comment", <<"/", "/", "/", "a">>)
====
